---- MODULE Spec2Model ----
(***************************************************************************)
(* The virtual-node factory and the block-tracking stack of               *)
(* packages/runtime-core/src/vnode.ts.                                     *)
(*                                                                         *)
(* Objects live in three heaps.  vnodes[i] is the i-th node object ever    *)
(* constructed (a node reference is its index); arrays[a] is the a-th      *)
(* array object (an array reference is its index, NullRef is null and      *)
(* EMPTY_ARR is the shared empty array of @vue/shared); objects[o] is the  *)
(* o-th props object, a function from property names to values.            *)
(* blockStack,                                                             *)
(* currentBlock and isBlockTreeEnabled are the module-level variables of   *)
(* vnode.ts.  JavaScript values that are not nodes or arrays (types, keys) *)
(* are named by strings; the predicates under "JavaScript values" say      *)
(* what each of them is.                                                   *)
(*                                                                         *)
(* calls and suspended are history variables.  calls[i] is the call that   *)
(* constructed vnodes[i]: its arguments, whether tracking was enabled      *)
(* (isBlockTreeEnabled > 0), which array was the current block and, for a  *)
(* block, which array was the frame below it.  suspended counts the        *)
(* setBlockTracking(-1) calls not yet matched by a setBlockTracking(1).    *)
(* compared holds the value returned by the last isSameVNodeType call,     *)
(* lastCall the argument and the value returned of the last call of        *)
(* normalizeVNode, mergeProps, closeBlock or of a method of an             *)
(* application, or the throw that ended a render pass.  opened holds, for  *)
(* each openBlock not yet matched by a close, what it found.               *)
(* rendered and warnings are what the host has been told: the calls of     *)
(* the renderer and the diagnostics, in order.  running holds the          *)
(* runWithContext calls whose callback has not returned yet, innermost     *)
(* last.                                                                   *)
(***************************************************************************)
EXTENDS Integers, Sequences, FiniteSets, TLC

VARIABLES vnodes, arrays, objects, blockStack, currentBlock,
          isBlockTreeEnabled, calls, suspended, compared, lastCall, opened,
          apps, containers, currentApp, rendered, warnings, running

\* the state of apiCreateApp.ts and of the host it talks to
appVars == <<apps, containers, currentApp, rendered, warnings, running>>

vars == <<vnodes, arrays, objects, blockStack, currentBlock,
          isBlockTreeEnabled, calls, suspended, compared, lastCall, opened,
          appVars>>

---------------------------------------------------------------------------
(* Bounds of the model *)

MaxNodes == 3
MaxSuspend == 2
MaxFlatNodes == 4
MaxCloneNodes == 3
MaxTypeNodes == 2
MaxKeyNodes == 2

---------------------------------------------------------------------------
(* Flags *)

ELEMENT == 1
FUNCTIONAL_COMPONENT == 2
STATEFUL_COMPONENT == 4
TEXT_CHILDREN == 8
ARRAY_CHILDREN == 16
SLOTS_CHILDREN == 32
TELEPORT == 64
SUSPENSE == 128
COMPONENT_SHOULD_KEEP_ALIVE == 256
COMPONENT_KEPT_ALIVE == 512

\* PatchFlags of @vue/shared
TEXT == 1
CLASS == 2
FULL_PROPS == 16
HYDRATE_EVENTS == 32
DYNAMIC_SLOTS == 1024
HOISTED == -1
BAIL == -2

\* a | b and a & b on two's-complement integers (\div rounds down, so the
\* sign bits of a negative number go on for ever: -1 is all ones).
RECURSIVE BitOr(_, _)
BitOr(a, b) ==
  IF a = 0 THEN b
  ELSE IF b = 0 THEN a
  ELSE IF a = -1 \/ b = -1 THEN -1
  ELSE (IF a % 2 = 1 \/ b % 2 = 1 THEN 1 ELSE 0) + 2 * BitOr(a \div 2, b \div 2)

RECURSIVE BitAnd(_, _)
BitAnd(a, b) ==
  IF a = 0 \/ b = 0 THEN 0
  ELSE IF a = -1 THEN b
  ELSE IF b = -1 THEN a
  ELSE (IF a % 2 = 1 /\ b % 2 = 1 THEN 1 ELSE 0) + 2 * BitAnd(a \div 2, b \div 2)

\* ~a
BitNot(a) == -a - 1

COMPONENT == BitOr(STATEFUL_COMPONENT, FUNCTIONAL_COMPONENT)

---------------------------------------------------------------------------
(* JavaScript values *)

Fragment == "v-fgt"
Text == "v-txt"
Comment == "v-cmt"
Static == "v-stc"
NULL_DYNAMIC_COMPONENT == "v-ndc"

\* The values a caller may pass as a type, besides an existing node:
\* two strings, the five symbols, three plain objects (a component's
\* options, SuspenseImpl, TeleportImpl), a function, a class-style
\* component (a function carrying __vccOpts) and the falsy values.
StringValues == {"div", ""}
SymbolValues == {Fragment, Text, Comment, Static, NULL_DYNAMIC_COMPONENT}
ObjectValues == {"Comp", "ClassOpts", "SuspenseImpl", "TeleportImpl"}
FunctionValues == {"Fn", "ClassComp"}
FalsyValues == {"null", "undefined", "", "0", "false"}
TypeValues ==
  StringValues \cup SymbolValues \cup ObjectValues \cup FunctionValues
    \cup FalsyValues

isString(v) == v \in StringValues
isObject(v) == v \in ObjectValues
isFunction(v) == v \in FunctionValues
isSuspense(v) == v = "SuspenseImpl"
isTeleport(v) == v = "TeleportImpl"
isClassComponent(v) == isFunction(v) /\ v = "ClassComp"
vccOpts(v) == "ClassOpts"
Truthy(v) == v \notin FalsyValues

\* The other JavaScript values (children, refs, property values) carry
\* their typeof: null, undefined, a string, a number, a boolean, an array
\* (a reference into arrays), a function (by name) and a node (its index).
JNull == <<"null">>
JUndefined == <<"undefined">>
JString(str) == <<"string", str>>
JNumber(num) == <<"number", num>>
JBoolean(b) == <<"boolean", b>>
JArray(a) == <<"array", a>>
JFunction(f) == <<"function", f>>
JVNode(n) == <<"vnode", n>>
typeof(v) == v[1]

\* if (v): false, 0, "", null and undefined are falsy
ToBoolean(v) ==
  CASE typeof(v) \in {"null", "undefined"} -> FALSE
    [] typeof(v) = "string" -> v[2] # ""
    [] typeof(v) = "number" -> v[2] # 0
    [] typeof(v) = "boolean" -> v[2]
    [] OTHER -> TRUE

\* build flags
FEATURE_SUSPENSE == TRUE
DEV == TRUE

\* a === b on keys and types: NaN is the one value not equal to itself
StrictEquals(a, b) == a = b /\ a # "NaN"

---------------------------------------------------------------------------
(* References *)

NullRef == 0

\* the host containers an application can be mounted in
HostContainers == {"c1", "c2"}
EMPTY_ARR == 1

\* props and the other nullable objects: <<>> is null, <<m>> the object m
Null == <<>>
Some(m) == <<m>>

\* the argument `type` of createVNode: a value, or an existing node
TypeArg(v) == [val |-> v, vnode |-> NullRef]
VNodeArg(n) == [val |-> "vnode", vnode |-> n]
isVNode(arg) == arg.vnode # NullRef

\* Array.prototype.indexOf: the first index of x in the array, -1 if none
indexOf(arr, x) ==
  IF \E i \in 1..Len(arr) : arr[i] = x
  THEN (CHOOSE i \in 1..Len(arr) :
          arr[i] = x /\ \A j \in 1..(i - 1) : arr[j] # x) - 1
  ELSE -1

---------------------------------------------------------------------------
(* The program state as one value, so that calls compose *)

\* The element of a one-element set.  The({F(x) : x \in {v}}) is F(v) with v
\* computed once, as in: const x = v; return F(x)
The(S) == CHOOSE x \in S : TRUE

\* currentRenderingInstance (componentRenderContext) is null between
\* renders; a call made during a render sees the instance rendered.
NoInstance == <<"null">>
Instance(slots) == <<"instance", slots>>

St ==
  [vnodes |-> vnodes, arrays |-> arrays, objects |-> objects,
   blockStack |-> blockStack, currentBlock |-> currentBlock,
   isBlockTreeEnabled |-> isBlockTreeEnabled,
   currentRenderingInstance |-> NoInstance,
   returned |-> NullRef]

Becomes(s) ==
  /\ vnodes' = s.vnodes
  /\ arrays' = s.arrays
  /\ objects' = s.objects
  /\ blockStack' = s.blockStack
  /\ currentBlock' = s.currentBlock
  /\ isBlockTreeEnabled' = s.isBlockTreeEnabled

\* arr.push(x)
push(s, a, x) == [s EXCEPT !.arrays[a] = Append(@, x)]

\* Faulty variant: no frame is pushed for a block that does not track.
openBlock_NoFrameWhenDisabled(s, disableTracking) ==
  IF disableTracking
  THEN [s EXCEPT !.currentBlock = NullRef]
  ELSE LET a == Len(s.arrays) + 1
       IN [s EXCEPT !.arrays = Append(@, <<>>),
                    !.blockStack = Append(@, a),
                    !.currentBlock = a]

openBlock(s, disableTracking) ==
  IF disableTracking
  THEN [s EXCEPT !.blockStack = Append(@, NullRef), !.currentBlock = NullRef]
  ELSE LET a == Len(s.arrays) + 1
       IN [s EXCEPT !.arrays = Append(@, <<>>),
                    !.blockStack = Append(@, a),
                    !.currentBlock = a]

\* Faulty variant: the frame is popped and currentBlock is left as it is.
closeBlock_KeepsCurrent(s) ==
  LET n == Len(s.blockStack)
  IN [s EXCEPT !.blockStack = IF n = 0 THEN <<>> ELSE SubSeq(@, 1, n - 1)]

\* blockStack.pop(); currentBlock = blockStack[blockStack.length - 1] || null
closeBlock(s) ==
  LET n == Len(s.blockStack)
      popped == IF n = 0 THEN <<>> ELSE SubSeq(s.blockStack, 1, n - 1)
  IN [s EXCEPT !.blockStack = popped,
               !.currentBlock =
                 IF Len(popped) = 0 THEN NullRef ELSE popped[Len(popped)]]

\* Faulty variant: the switch is a flag, not a counter.
setBlockTracking_Flag(s, value) ==
  [s EXCEPT !.isBlockTreeEnabled = IF value > 0 THEN 1 ELSE 0]

setBlockTracking(s, value) ==
  [s EXCEPT !.isBlockTreeEnabled = @ + value]

---------------------------------------------------------------------------
(* Props *)

\* A props object is a function from property names to values.
\* normalizeKey: key != null ? key : null (a missing key reads undefined)
normalizeKey(props) ==
  IF "key" \in DOMAIN props /\ props["key"] \notin {"null", "undefined"}
  THEN props["key"]
  ELSE "null"

---------------------------------------------------------------------------
(* Property values: class, style and event handlers *)

\* A string whose characters matter (class names, style text) is spelled
\* as a tuple of one-character strings: "a b" is <<"a", " ", "b">>.
JText(chars) == <<"string", chars>>

\* An array and an object written in a props object.  id tells two of them
\* apart, as === does; items are the elements of the array in order,
\* entries the <<name, value>> pairs of the object in insertion order.
JList(id, items) == <<"list", id, items>>
JMap(id, entries) == <<"map", id, entries>>

\* obj.k: a property that is not there reads undefined
Get(obj, k) == IF k \in DOMAIN obj THEN obj[k] ELSE JUndefined

\* String.prototype.trim
RECURSIVE trimStart(_)
trimStart(chars) ==
  IF chars # <<>> /\ Head(chars) = " " THEN trimStart(Tail(chars)) ELSE chars

RECURSIVE trimEnd(_)
trimEnd(chars) ==
  IF chars # <<>> /\ chars[Len(chars)] = " "
  THEN trimEnd(SubSeq(chars, 1, Len(chars) - 1))
  ELSE chars

trim(chars) == trimEnd(trimStart(chars))

\* if (normalized) { res += normalized + ' ' }
Spaced(chars) == IF chars # <<>> THEN chars \o <<" ">> ELSE <<>>

\* the names of an object whose value is truthy, each followed by a space
RECURSIVE trueNames(_, _)
trueNames(entries, i) ==
  IF i > Len(entries) THEN <<>>
  ELSE (IF ToBoolean(entries[i][2]) THEN entries[i][1] \o <<" ">> ELSE <<>>)
         \o trueNames(entries, i + 1)

RECURSIVE normalizeClass(_)
RECURSIVE normalizeClassItems(_, _)
normalizeClassItems(items, i) ==
  IF i > Len(items) THEN <<>>
  ELSE Spaced(normalizeClass(items[i])) \o normalizeClassItems(items, i + 1)

\* normalizeClass: the characters of the string returned
normalizeClass(value) ==
  trim(CASE typeof(value) = "string" -> value[2]
         [] typeof(value) = "list" -> normalizeClassItems(value[3], 1)
         [] typeof(value) = "map" -> trueNames(value[3], 1)
         [] OTHER -> <<>>)

\* the position of the first c in chars from position i on, 0 if none
RECURSIVE firstIndex(_, _, _)
firstIndex(chars, c, i) ==
  IF i > Len(chars) THEN 0
  ELSE IF chars[i] = c THEN i ELSE firstIndex(chars, c, i + 1)

\* cssText.split(listDelimiterRE): the pieces between semicolons.  Style
\* text here has no parentheses and no comments.
RECURSIVE splitList(_)
splitList(chars) ==
  IF firstIndex(chars, ";", 1) = 0 THEN <<chars>>
  ELSE <<SubSeq(chars, 1, firstIndex(chars, ";", 1) - 1)>>
         \o splitList(SubSeq(chars, firstIndex(chars, ";", 1) + 1, Len(chars)))

\* res[key] = value on the entries of an object: an existing name keeps
\* its place, a new one goes last
setEntry(entries, key, value) ==
  IF \E i \in 1..Len(entries) : entries[i][1] = key
  THEN [i \in 1..Len(entries) |->
          IF entries[i][1] = key THEN <<key, value>> ELSE entries[i]]
  ELSE Append(entries, <<key, value>>)

RECURSIVE setEntries(_, _, _)
setEntries(entries, from, i) ==
  IF i > Len(from) THEN entries
  ELSE setEntries(setEntry(entries, from[i][1], from[i][2]), from, i + 1)

\* one item of the text: item.split(propertyDelimiterRE) breaks at the
\* first colon that has something after it; an item without one is dropped
styleItem(entries, item) ==
  IF firstIndex(item, ":", 1) = 0 \/ firstIndex(item, ":", 1) = Len(item)
  THEN entries
  ELSE setEntry(entries,
                trim(SubSeq(item, 1, firstIndex(item, ":", 1) - 1)),
                JText(trim(SubSeq(item, firstIndex(item, ":", 1) + 1, Len(item)))))

RECURSIVE styleItems(_, _, _)
styleItems(entries, items, i) ==
  IF i > Len(items) THEN entries
  ELSE styleItems(styleItem(entries, items[i]), items, i + 1)

\* parseStringStyle: the entries of the object returned
parseStringStyle(cssText) == styleItems(<<>>, splitList(cssText), 1)

RECURSIVE normalizeStyle(_)
RECURSIVE normalizeStyleItems(_, _, _)
\* the loop of normalizeStyle over an array; a string item is parsed, an
\* object item is taken as it is, an array item is normalized, and every
\* other item gives undefined and adds nothing
normalizeStyleItems(res, value, i) ==
  IF i > Len(value) THEN res
  ELSE normalizeStyleItems(
         CASE typeof(value[i]) = "string" ->
                setEntries(res, parseStringStyle(value[i][2]), 1)
           [] typeof(value[i]) \in {"list", "map"} ->
                setEntries(res, normalizeStyle(value[i])[3], 1)
           [] OTHER -> res,
         value, i + 1)

\* normalizeStyle: a new object for an array, the value itself for a
\* string or an object, undefined otherwise
normalizeStyle(value) ==
  CASE typeof(value) = "list" ->
         JMap("new", normalizeStyleItems(<<>>, value[3], 1))
    [] typeof(value) \in {"string", "map"} -> value
    [] OTHER -> JUndefined

---------------------------------------------------------------------------
(* mergeProps *)

\* isOn(key): the names of event handlers, onXxx
OnKeys == {"onClick", "onUpdate:modelValue"}
isOn(key) == key \in OnKeys

\* existing.includes(incoming)
includes(items, v) == \E i \in 1..Len(items) : items[i] = v

\* what [].concat spreads: the elements of an array, or the value alone
Spread(v) == IF typeof(v) = "list" THEN v[3] ELSE <<v>>

\* if (ret.class !== toMerge.class)
classChanges_Always(ret, toMerge) == TRUE
classChanges(ret, toMerge) == Get(ret, "class") # toMerge["class"]

\* ret.class = normalizeClass([ret.class, toMerge.class])
mergeClass_Overwrites(ret, toMerge) ==
  JText(normalizeClass(JList("new", <<toMerge["class"]>>)))
mergeClass(ret, toMerge) ==
  JText(normalizeClass(JList("new", <<Get(ret, "class"), toMerge["class"]>>)))

\* ret.style = normalizeStyle([ret.style, toMerge.style])
mergeStyle(ret, toMerge) ==
  normalizeStyle(JList("new", <<Get(ret, "style"), toMerge["style"]>>))

\* incoming && existing !== incoming &&
\*   !(isArray(existing) && existing.includes(incoming))
handlerChanges_NoDedupe(existing, incoming) == ToBoolean(incoming)
handlerChanges(existing, incoming) ==
  /\ ToBoolean(incoming)
  /\ existing # incoming
  /\ ~(typeof(existing) = "list" /\ includes(existing[3], incoming))

\* existing ? [].concat(existing, incoming) : incoming
mergeHandler_Overwrites(existing, incoming) == incoming
mergeHandler(existing, incoming) ==
  IF ToBoolean(existing)
  THEN JList("new", Spread(existing) \o Spread(incoming))
  ELSE incoming

\* the keys of toMerge for which the loop body assigns ret[key]
Assigned(ret, toMerge) ==
  {key \in DOMAIN toMerge :
     CASE key = "class" -> classChanges(ret, toMerge)
       [] key = "style" -> TRUE
       [] isOn(key) -> handlerChanges(Get(ret, key), toMerge[key])
       [] OTHER -> key # ""}

\* One round of the outer loop of mergeProps: for (const key in toMerge).
\* Each key reads and writes ret[key] only, so the order of the keys does
\* not matter.
mergeInto(ret, toMerge) ==
  [key \in DOMAIN ret \cup Assigned(ret, toMerge) |->
     IF key \notin Assigned(ret, toMerge) THEN ret[key]
     ELSE CASE key = "class" -> mergeClass(ret, toMerge)
            [] key = "style" -> mergeStyle(ret, toMerge)
            [] isOn(key) -> mergeHandler(Get(ret, key), toMerge[key])
            [] OTHER -> toMerge[key]]

RECURSIVE mergeFrom(_, _, _)
mergeFrom(ret, args, i) ==
  IF i > Len(args) THEN ret ELSE mergeFrom(mergeInto(ret, args[i]), args, i + 1)

EmptyObject == [k \in {} |-> ""]

mergeProps(args) == mergeFrom(EmptyObject, args, 1)

---------------------------------------------------------------------------
(* Node construction *)


\* String(n) and '' + n for an integer n
Digits == <<"0", "1", "2", "3", "4", "5", "6", "7", "8", "9">>

RECURSIVE NatToString(_)
NatToString(n) ==
  IF n < 10 THEN Digits[n + 1]
  ELSE NatToString(n \div 10) \o Digits[(n % 10) + 1]

NumberToString(n) == IF n < 0 THEN "-" \o NatToString(-n) ELSE NatToString(n)

\* String(v) for the primitive values
String(v) ==
  CASE typeof(v) = "string" -> v[2]
    [] typeof(v) = "number" -> NumberToString(v[2])
    [] typeof(v) = "boolean" -> IF v[2] THEN "true" ELSE "false"
    [] typeof(v) = "null" -> "null"
    [] typeof(v) = "undefined" -> "undefined"

\* A ref binding { i, r, k, f }.  A Ref object of @vue/reactivity is
\* <<"ref", name>>; isRef holds of those only.
RefAtom(i, r, k, f) == <<"object", [i |-> i, r |-> r, k |-> k, f |-> f]>>
JRef(name) == <<"ref", name>>
isRef(v) == typeof(v) = "ref"

normalizeRef(s, props) ==
  LET given == Get(props, "ref")
      ref == IF typeof(given) = "number"
             THEN JString("" \o NumberToString(given[2]))
             ELSE given
  IN IF typeof(ref) \notin {"null", "undefined"}
     THEN IF typeof(ref) = "string" \/ isRef(ref) \/ typeof(ref) = "function"
          THEN RefAtom(s.currentRenderingInstance, ref,
                       Get(props, "ref_key"), ToBoolean(Get(props, "ref_for")))
          ELSE ref
     ELSE JNull

RECURSIVE normalizeChildren(_, _, _)

\* Faulty variant: the two children bits of the fast path are swapped.
baseVNode_SwappedFastPath(s, type, props, children, patchFlag, shapeFlag, needFullChildrenNormalization) ==
  LET vnode == [type |-> type,
                props |-> props,
                key |-> IF props = NullRef THEN "null"
                        ELSE normalizeKey(s.objects[props]),
                ref |-> IF props = NullRef THEN JNull
                        ELSE normalizeRef(s, s.objects[props]),
                children |-> children,
                el |-> NullRef,
                memo |-> FALSE,
                shapeFlag |-> shapeFlag,
                patchFlag |-> patchFlag,
                dynamicChildren |-> NullRef,
                appContext |-> NullRef]
      id == Len(s.vnodes) + 1
      s1 == [s EXCEPT !.vnodes = Append(@, vnode)]
  IN IF needFullChildrenNormalization
     THEN normalizeChildren(s1, id, children)
     ELSE IF ToBoolean(children)
     THEN [s1 EXCEPT !.vnodes[id].shapeFlag =
             BitOr(@, IF typeof(children) = "string"
                      THEN ARRAY_CHILDREN ELSE TEXT_CHILDREN)]
     ELSE s1

\* lines 446-488 of createBaseVNode: the node object, with its children
\* normalized or classified.  SuspenseImpl.normalize (Suspense.ts) fills
\* ssContent and ssFallback, which are not among the fields kept here.
baseVNode(s, type, props, children, patchFlag, shapeFlag, needFullChildrenNormalization) ==
  LET vnode == [type |-> type,
                props |-> props,
                key |-> IF props = NullRef THEN "null"
                        ELSE normalizeKey(s.objects[props]),
                ref |-> IF props = NullRef THEN JNull
                        ELSE normalizeRef(s, s.objects[props]),
                children |-> children,
                el |-> NullRef,
                memo |-> FALSE,
                shapeFlag |-> shapeFlag,
                patchFlag |-> patchFlag,
                dynamicChildren |-> NullRef,
                appContext |-> NullRef]
      id == Len(s.vnodes) + 1
      s1 == [s EXCEPT !.vnodes = Append(@, vnode)]
  IN IF needFullChildrenNormalization
     THEN normalizeChildren(s1, id, children)
     ELSE IF ToBoolean(children)
     THEN [s1 EXCEPT !.vnodes[id].shapeFlag =
             BitOr(@, IF typeof(children) = "string"
                      THEN TEXT_CHILDREN ELSE ARRAY_CHILDREN)]
     ELSE s1

\* Faulty variant: a node whose only flag is HYDRATE_EVENTS is tracked too.
createBaseVNode_TracksHydrateEvents(s, type, props, children, patchFlag, shapeFlag, isBlockNode, needFullChildrenNormalization) ==
  The({(
        LET id == Len(s.vnodes) + 1
        IN IF /\ s1.isBlockTreeEnabled > 0
              /\ ~isBlockNode
              /\ s1.currentBlock # NullRef
              /\ (s1.vnodes[id].patchFlag > 0
                    \/ BitAnd(shapeFlag, COMPONENT) # 0)
           THEN [push(s1, s1.currentBlock, id) EXCEPT !.returned = id]
           ELSE [s1 EXCEPT !.returned = id])
    : s1 \in {baseVNode(s, type, props, children, patchFlag, shapeFlag,
                         needFullChildrenNormalization)}})

createBaseVNode(s, type, props, children, patchFlag, shapeFlag, isBlockNode, needFullChildrenNormalization) ==
  The({(
        LET id == Len(s.vnodes) + 1
        IN IF /\ s1.isBlockTreeEnabled > 0
              /\ ~isBlockNode
              /\ s1.currentBlock # NullRef
              /\ (s1.vnodes[id].patchFlag > 0
                    \/ BitAnd(shapeFlag, COMPONENT) # 0)
              /\ s1.vnodes[id].patchFlag # HYDRATE_EVENTS
           THEN [push(s1, s1.currentBlock, id) EXCEPT !.returned = id]
           ELSE [s1 EXCEPT !.returned = id])
    : s1 \in {baseVNode(s, type, props, children, patchFlag, shapeFlag,
                         needFullChildrenNormalization)}})

\* createElementVNode with its default shapeFlag
DefaultShapeFlag(type) == IF type = Fragment THEN 0 ELSE ELEMENT

createElementVNode(s, type, props, children, patchFlag) ==
  createBaseVNode(s, type, props, children, patchFlag,
                  DefaultShapeFlag(type), FALSE, FALSE)

\* a list of ref bindings, the value of vnode.ref after a merge
RefList(atoms) == <<"reflist", atoms>>

\* Faulty variant: the incoming ref is merged whenever the original has one.
cloneRef_AlwaysMerges(s, vnode, extraProps, mergeRef) ==
  IF extraProps # NullRef /\ ToBoolean(Get(s.objects[extraProps], "ref"))
  THEN IF ToBoolean(vnode.ref)
       THEN IF typeof(vnode.ref) = "reflist"
            THEN RefList(Append(vnode.ref[2],
                                normalizeRef(s, s.objects[extraProps])))
            ELSE RefList(<<vnode.ref, normalizeRef(s, s.objects[extraProps])>>)
       ELSE normalizeRef(s, s.objects[extraProps])
  ELSE vnode.ref

\* the field ref of the clone (lines 650-660)
cloneRef(s, vnode, extraProps, mergeRef) ==
  IF extraProps # NullRef /\ ToBoolean(Get(s.objects[extraProps], "ref"))
  THEN IF mergeRef /\ ToBoolean(vnode.ref)
       THEN IF typeof(vnode.ref) = "reflist"
            THEN RefList(Append(vnode.ref[2],
                                normalizeRef(s, s.objects[extraProps])))
            ELSE RefList(<<vnode.ref, normalizeRef(s, s.objects[extraProps])>>)
       ELSE normalizeRef(s, s.objects[extraProps])
  ELSE vnode.ref

\* Faulty variant: a Fragment is given FULL_PROPS like any other node.
clonePatchFlag_FragmentToo(vnode, extraProps) ==
  IF extraProps # NullRef
  THEN IF vnode.patchFlag = -1
       THEN FULL_PROPS
       ELSE BitOr(vnode.patchFlag, FULL_PROPS)
  ELSE vnode.patchFlag

\* the field patchFlag of the clone (lines 675-680)
clonePatchFlag(vnode, extraProps) ==
  IF extraProps # NullRef /\ vnode.type # Fragment
  THEN IF vnode.patchFlag = -1
       THEN FULL_PROPS
       ELSE BitOr(vnode.patchFlag, FULL_PROPS)
  ELSE vnode.patchFlag

RECURSIVE cloneVNode(_, _, _, _)
RECURSIVE deepCloneAll(_, _, _, _)

\* deepCloneVNode: the state after it, with the clone as the node returned
deepCloneVNode(s, n) ==
  The({(
        LET children == s.vnodes[n].children
        IN IF typeof(children) = "array"
           THEN The({(
                      [r.s EXCEPT !.arrays = Append(@, r.out),
                                  !.vnodes[s1.returned].children =
                                     JArray(Len(r.s.arrays) + 1),
                                  !.returned = s1.returned])
                  : r \in {deepCloneAll(s1, s1.arrays[children[2]], 1, <<>>)}})
           ELSE s1)
    : s1 \in {cloneVNode(s, n, NullRef, FALSE)}})

\* children.map(deepCloneVNode): the state after it and the new elements
deepCloneAll(s, arr, i, out) ==
  IF i > Len(arr) THEN [s |-> s, out |-> out]
  ELSE The({deepCloneAll(s1, arr, i + 1, Append(out, s1.returned))
              : s1 \in {deepCloneVNode(s, arr[i])}})

\* Faulty variant: without extra props the clone gets a copy of the props
\* object of its own.
cloneVNode_OwnProps(s, n, extraProps, mergeRef) ==
  LET vnode == s.vnodes[n]
      deep == DEV /\ vnode.patchFlag = HOISTED
                  /\ typeof(vnode.children) = "array"
      s1 == IF extraProps # NullRef
            THEN [s EXCEPT !.objects =
                    Append(@, mergeProps(<<IF vnode.props = NullRef
                                           THEN EmptyObject
                                           ELSE s.objects[vnode.props],
                                           s.objects[extraProps]>>))]
            ELSE IF vnode.props # NullRef
            THEN [s EXCEPT !.objects = Append(@, s.objects[vnode.props])]
            ELSE s
      mergedProps == IF extraProps # NullRef \/ vnode.props # NullRef
                     THEN Len(s.objects) + 1
                     ELSE vnode.props
      cloned(s2, children) ==
        [type |-> vnode.type,
         props |-> mergedProps,
         key |-> IF mergedProps = NullRef THEN "null"
                 ELSE normalizeKey(s2.objects[mergedProps]),
         ref |-> cloneRef(s, vnode, extraProps, mergeRef),
         children |-> children,
         el |-> vnode.el,
         memo |-> FALSE,
         shapeFlag |-> vnode.shapeFlag,
         patchFlag |-> clonePatchFlag(vnode, extraProps),
         dynamicChildren |-> vnode.dynamicChildren,
         appContext |-> vnode.appContext]
      return(s2, children) ==
        [s2 EXCEPT !.vnodes = Append(@, cloned(s2, children)),
                   !.returned = Len(s2.vnodes) + 1]
  IN IF deep
     THEN The({return([r.s EXCEPT !.arrays = Append(@, r.out)],
                      JArray(Len(r.s.arrays) + 1))
               : r \in {deepCloneAll(s1, s1.arrays[vnode.children[2]],
                                     1, <<>>)}})
     ELSE return(s1, vnode.children)

\* cloneVNode(vnode, extraProps, mergeRef): the state after it, with the
\* clone as the node returned.  The fields of the object literal are
\* evaluated in order, so the merged props and the deep clones of a hoisted
\* node's children exist before the clone does.
cloneVNode(s, n, extraProps, mergeRef) ==
  LET vnode == s.vnodes[n]
      deep == DEV /\ vnode.patchFlag = HOISTED
                  /\ typeof(vnode.children) = "array"
      s1 == IF extraProps # NullRef
            THEN [s EXCEPT !.objects =
                    Append(@, mergeProps(<<IF vnode.props = NullRef
                                           THEN EmptyObject
                                           ELSE s.objects[vnode.props],
                                           s.objects[extraProps]>>))]
            ELSE s
      mergedProps == IF extraProps # NullRef THEN Len(s.objects) + 1
                     ELSE vnode.props
      cloned(s2, children) ==
        [type |-> vnode.type,
         props |-> mergedProps,
         key |-> IF mergedProps = NullRef THEN "null"
                 ELSE normalizeKey(s2.objects[mergedProps]),
         ref |-> cloneRef(s, vnode, extraProps, mergeRef),
         children |-> children,
         el |-> vnode.el,
         memo |-> FALSE,
         shapeFlag |-> vnode.shapeFlag,
         patchFlag |-> clonePatchFlag(vnode, extraProps),
         dynamicChildren |-> vnode.dynamicChildren,
         appContext |-> vnode.appContext]
      return(s2, children) ==
        [s2 EXCEPT !.vnodes = Append(@, cloned(s2, children)),
                   !.returned = Len(s2.vnodes) + 1]
  IN IF deep
     THEN The({return([r.s EXCEPT !.arrays = Append(@, r.out)],
                      JArray(Len(r.s.arrays) + 1))
               : r \in {deepCloneAll(s1, s1.arrays[vnode.children[2]],
                                     1, <<>>)}})
     ELSE return(s1, vnode.children)

\* Faulty variant: the object test comes before Suspense and Teleport.
ShapeFlagOf_ObjectFirst(type) ==
  IF isString(type) THEN ELEMENT
  ELSE IF isObject(type) THEN STATEFUL_COMPONENT
  ELSE IF FEATURE_SUSPENSE /\ isSuspense(type) THEN SUSPENSE
  ELSE IF isTeleport(type) THEN TELEPORT
  ELSE IF isFunction(type) THEN FUNCTIONAL_COMPONENT
  ELSE 0

\* lines 592-602: the kind of node, from the type
ShapeFlagOf(type) ==
  IF isString(type) THEN ELEMENT
  ELSE IF FEATURE_SUSPENSE /\ isSuspense(type) THEN SUSPENSE
  ELSE IF isTeleport(type) THEN TELEPORT
  ELSE IF isObject(type) THEN STATEFUL_COMPONENT
  ELSE IF isFunction(type) THEN FUNCTIONAL_COMPONENT
  ELSE 0

\* lines 552-558: the clone enters the current block
trackClone(s, n, cloned, isBlockNode) ==
  IF s.isBlockTreeEnabled > 0 /\ ~isBlockNode /\ s.currentBlock # NullRef
  THEN IF BitAnd(s.vnodes[cloned].shapeFlag, COMPONENT) # 0
       THEN LET i == indexOf(s.arrays[s.currentBlock], n)
            IN IF i >= 0
               THEN [s EXCEPT !.arrays[s.currentBlock][i + 1] = cloned]
               ELSE s
       ELSE push(s, s.currentBlock, cloned)
  ELSE s

\* the clone of node n, with its children normalized (lines 548-551)
clonedWithChildren(s, n, props, children) ==
  The({(
        IF ToBoolean(children)
        THEN [normalizeChildren(s1, s1.returned, children)
                EXCEPT !.returned = s1.returned]
        ELSE s1)
    : s1 \in {cloneVNode(s, n, props, TRUE)}})

\* Faulty variant: every clone is appended to the current block.
createVNodeFromVNode_AlwaysPushes(s, n, props, children, isBlockNode) ==
  The({(
        LET cloned == s1.returned
            s2 == IF s1.isBlockTreeEnabled > 0 /\ ~isBlockNode
                     /\ s1.currentBlock # NullRef
                  THEN push(s1, s1.currentBlock, cloned)
                  ELSE s1
        IN [s2 EXCEPT !.vnodes[cloned].patchFlag = BitOr(@, BAIL)])
    : s1 \in {clonedWithChildren(s, n, props, children)}})

\* Faulty variant: the clone keeps the patch flag cloneVNode gave it.
createVNodeFromVNode_NoBail(s, n, props, children, isBlockNode) ==
  The({trackClone(s1, n, s1.returned, isBlockNode)
         : s1 \in {clonedWithChildren(s, n, props, children)}})

\* lines 544-561: createVNode on an existing node.  The clone is entered
\* in the current block first and gets the BAIL bits after; the array
\* holds a reference, so the entry carries them too.  An assignment to
\* index -1 of an array sets a property named "-1" and leaves the
\* elements and the length alone.
createVNodeFromVNode(s, n, props, children, isBlockNode) ==
  The({(
        [trackClone(s1, n, s1.returned, isBlockNode)
           EXCEPT !.vnodes[s1.returned].patchFlag = BitOr(@, BAIL)])
    : s1 \in {clonedWithChildren(s, n, props, children)}})

\* Slot maps.  A slot map is <<"object", m>> with m.default the default
\* slot (a function, or undefined), m.flag its "_" slot flag ("none" when
\* it has none), m.internal whether it carries the internal-object key and
\* m.ctx the instance attached as "_ctx" (undefined until one is attached).
SlotMap(default, flag, internal) ==
  <<"object", [default |-> default, flag |-> flag, internal |-> internal,
               ctx |-> JUndefined]>>

\* What calling a slot function returns: a text, nothing, an empty array
\* made by the call, another function, or a slot map without a default.
SlotFunctions == {"slotText", "slotNothing", "slotArray", "slotFunction",
                  "slotSlots"}

slotCall(s, f) ==
  CASE f = "slotText" -> [s |-> s, value |-> JString("t")]
    [] f = "slotNothing" -> [s |-> s, value |-> JUndefined]
    [] f = "slotArray" ->
         [s |-> [s EXCEPT !.arrays = Append(@, <<>>)],
          value |-> JArray(Len(s.arrays) + 1)]
    [] f = "slotFunction" -> [s |-> s, value |-> JFunction("slotText")]
    [] f = "slotSlots" ->
         [s |-> s, value |-> SlotMap(JUndefined, "none", FALSE)]

\* Faulty variant: the null-dynamic-component marker passes as a type.
ValidType_OnlyFalsy(type) ==
  IF ~Truthy(type) THEN Comment ELSE type

\* lines 537-542: an invalid type becomes Comment
ValidType(type) ==
  IF ~Truthy(type) \/ type = NULL_DYNAMIC_COMPONENT THEN Comment ELSE type

\* lines 563-566
UnwrapClassComponent(type) ==
  IF isClassComponent(type) THEN vccOpts(type) ELSE type

\* A proxy of @vue/reactivity answers true when asked for __v_isReactive;
\* the props of a component instance carry the key __vInternal.  Neither
\* is an enumerable own property, so extend({}, obj) does not copy it.
ProxyMarker == "__v_isReactive"
InternalObjectKey == "__vInternal"
isProxy(obj) == ProxyMarker \in DOMAIN obj

\* a style object that is a proxy: its id tells
ProxyIds == {"reactive"}
isProxyValue(v) == typeof(v) \in {"list", "map"} /\ v[2] \in ProxyIds

\* extend({}, obj): a new object with the enumerable own properties
extend(obj) ==
  [k \in DOMAIN obj \ {ProxyMarker, InternalObjectKey} |-> obj[k]]

\* obj[key] = value
Put(obj, key, value) ==
  [k \in DOMAIN obj \cup {key} |-> IF k = key THEN value ELSE obj[k]]

\* Faulty variant: only the props of a component instance are copied.
guardReactiveProps_InternalOnly(s, props) ==
  IF props = NullRef THEN [s EXCEPT !.returned = NullRef]
  ELSE IF InternalObjectKey \in DOMAIN s.objects[props]
  THEN [s EXCEPT !.objects = Append(@, extend(s.objects[props])),
                 !.returned = Len(s.objects) + 1]
  ELSE [s EXCEPT !.returned = props]

\* guardReactiveProps: returned is the object to work on
guardReactiveProps(s, props) ==
  IF props = NullRef THEN [s EXCEPT !.returned = NullRef]
  ELSE IF isProxy(s.objects[props])
          \/ InternalObjectKey \in DOMAIN s.objects[props]
  THEN [s EXCEPT !.objects = Append(@, extend(s.objects[props])),
                 !.returned = Len(s.objects) + 1]
  ELSE [s EXCEPT !.returned = props]

\* lines 577-579: if (klass && !isString(klass))
\*   props.class = normalizeClass(klass)
withClass(obj) ==
  IF typeof(Get(obj, "class")) # "string" /\ ToBoolean(Get(obj, "class"))
  THEN Put(obj, "class", JText(normalizeClass(Get(obj, "class"))))
  ELSE obj

\* lines 580-587: if (isObject(style)) { if (isProxy(style) &&
\*   !isArray(style)) style = extend({}, style);
\*   props.style = normalizeStyle(style) }
withStyle(obj) ==
  IF typeof(Get(obj, "style")) \in {"list", "map"}
  THEN Put(obj, "style",
           normalizeStyle(IF isProxyValue(Get(obj, "style"))
                             /\ typeof(Get(obj, "style")) # "list"
                          THEN JMap("new", Get(obj, "style")[3])
                          ELSE Get(obj, "style")))
  ELSE obj

\* lines 574-589: class and style normalization, written into the object
\* guardReactiveProps returned
normalizedProps(s, props) ==
  The({IF s1.returned = NullRef THEN s1
       ELSE [s1 EXCEPT !.objects[s1.returned] = withStyle(withClass(@))]
       : s1 \in {guardReactiveProps(s, props)}})

\* _createVNode
createVNode(s, arg, props, children, patchFlag, isBlockNode) ==
  IF isVNode(arg)
  THEN createVNodeFromVNode(s, arg.vnode, props, children, isBlockNode)
  ELSE The({createBaseVNode(s1, UnwrapClassComponent(ValidType(arg.val)),
                            s1.returned, children, patchFlag,
                            ShapeFlagOf(UnwrapClassComponent(ValidType(arg.val))),
                            isBlockNode, TRUE)
            : s1 \in {normalizedProps(s, props)}})

\* createTextVNode(text, flag) is createVNode(Text, null, text, flag); Text
\* is a symbol, which _createVNode hands to createBaseVNode as it is, with
\* the shapeFlag 0 (lines 592-625).
createTextVNode(s, text, flag) ==
  createBaseVNode(s, Text, NullRef, JString(text), flag, ShapeFlagOf(Text),
                  FALSE, TRUE)

\* Faulty variant: an element given a slot map without a default slot gets
\* null for children.
normalizeChildren_ClearsSlotMap(s, id, children) ==
  LET shapeFlag == s.vnodes[id].shapeFlag
      instance == s.currentRenderingInstance
      assign(st, ch, type) ==
        [st EXCEPT !.vnodes[id].children = ch,
                   !.vnodes[id].shapeFlag = BitOr(@, type)]
  IN CASE typeof(children) \in {"null", "undefined"} -> assign(s, JNull, 0)
       [] typeof(children) = "array" -> assign(s, children, ARRAY_CHILDREN)
       [] typeof(children) = "object" ->
            IF BitAnd(shapeFlag, BitOr(ELEMENT, TELEPORT)) # 0
            THEN LET slot == children[2].default
                 IN IF ToBoolean(slot)
                    THEN The({normalizeChildren(r.s, id, r.value)
                                : r \in {slotCall(s, slot[2])}})
                    ELSE assign(s, JNull, 0)
            ELSE LET slotFlag == children[2].flag
                 IN IF slotFlag = "none" /\ ~children[2].internal
                    THEN assign(s, <<"object",
                                     [children[2] EXCEPT !.ctx = instance]>>,
                                SLOTS_CHILDREN)
                    ELSE IF slotFlag = "FORWARDED" /\ instance # NoInstance
                    THEN IF instance[2] = "STABLE"
                         THEN assign(s, <<"object",
                                  [children[2] EXCEPT !.flag = "STABLE"]>>,
                                SLOTS_CHILDREN)
                         ELSE [assign(s, <<"object",
                                  [children[2] EXCEPT !.flag = "DYNAMIC"]>>,
                                SLOTS_CHILDREN)
                               EXCEPT !.vnodes[id].patchFlag =
                                        BitOr(@, DYNAMIC_SLOTS)]
                    ELSE assign(s, children, SLOTS_CHILDREN)
       [] typeof(children) = "function" ->
            assign(s, <<"object", [default |-> children, flag |-> "none",
                                   internal |-> FALSE, ctx |-> instance]>>,
                   SLOTS_CHILDREN)
       [] OTHER ->
            LET text == String(children)
            IN IF BitAnd(shapeFlag, TELEPORT) # 0
               THEN The({assign([s1 EXCEPT !.arrays =
                                           Append(@, <<s1.returned>>)],
                                JArray(Len(s1.arrays) + 1), ARRAY_CHILDREN)
                           : s1 \in {createTextVNode(s, text, 0)}})
               ELSE assign(s, JString(text), TEXT_CHILDREN)

\* normalizeChildren(vnode, children), vnode being node id.  The _c/_d
\* marks it sets and resets on a compiled slot around the call are
\* properties of the slot function, which the model does not keep.
normalizeChildren(s, id, children) ==
  LET shapeFlag == s.vnodes[id].shapeFlag
      instance == s.currentRenderingInstance
      assign(st, ch, type) ==
        [st EXCEPT !.vnodes[id].children = ch,
                   !.vnodes[id].shapeFlag = BitOr(@, type)]
  IN CASE typeof(children) \in {"null", "undefined"} -> assign(s, JNull, 0)
       [] typeof(children) = "array" -> assign(s, children, ARRAY_CHILDREN)
       [] typeof(children) = "object" ->
            IF BitAnd(shapeFlag, BitOr(ELEMENT, TELEPORT)) # 0
            THEN LET slot == children[2].default
                 IN IF ToBoolean(slot)
                    THEN The({normalizeChildren(r.s, id, r.value)
                                : r \in {slotCall(s, slot[2])}})
                    ELSE s
            ELSE LET slotFlag == children[2].flag
                 IN IF slotFlag = "none" /\ ~children[2].internal
                    THEN assign(s, <<"object",
                                     [children[2] EXCEPT !.ctx = instance]>>,
                                SLOTS_CHILDREN)
                    ELSE IF slotFlag = "FORWARDED" /\ instance # NoInstance
                    THEN IF instance[2] = "STABLE"
                         THEN assign(s, <<"object",
                                  [children[2] EXCEPT !.flag = "STABLE"]>>,
                                SLOTS_CHILDREN)
                         ELSE [assign(s, <<"object",
                                  [children[2] EXCEPT !.flag = "DYNAMIC"]>>,
                                SLOTS_CHILDREN)
                               EXCEPT !.vnodes[id].patchFlag =
                                        BitOr(@, DYNAMIC_SLOTS)]
                    ELSE assign(s, children, SLOTS_CHILDREN)
       [] typeof(children) = "function" ->
            assign(s, <<"object", [default |-> children, flag |-> "none",
                                   internal |-> FALSE, ctx |-> instance]>>,
                   SLOTS_CHILDREN)
       [] OTHER ->
            LET text == String(children)
            IN IF BitAnd(shapeFlag, TELEPORT) # 0
               THEN The({assign([s1 EXCEPT !.arrays =
                                           Append(@, <<s1.returned>>)],
                                JArray(Len(s1.arrays) + 1), ARRAY_CHILDREN)
                           : s1 \in {createTextVNode(s, text, 0)}})
               ELSE assign(s, JString(text), TEXT_CHILDREN)

\* Faulty variant: every node is cloned.
cloneIfMounted_AlwaysClones(s, n) ==
  cloneVNode(s, n, NullRef, FALSE)

\* Faulty variant: a node is returned as it is only if it was never mounted
\* and is not hoisted, whether it carries a memo or not.
cloneIfMounted_IgnoresMemo(s, n) ==
  IF s.vnodes[n].el = NullRef /\ s.vnodes[n].patchFlag # HOISTED
  THEN [s EXCEPT !.returned = n]
  ELSE cloneVNode(s, n, NullRef, FALSE)

\* cloneIfMounted(child): the state after it, with the node returned
cloneIfMounted(s, n) ==
  IF \/ s.vnodes[n].el = NullRef /\ s.vnodes[n].patchFlag # HOISTED
     \/ s.vnodes[n].memo
  THEN [s EXCEPT !.returned = n]
  ELSE cloneVNode(s, n, NullRef, FALSE)

\* Faulty variant: the Fragment gets the caller's array, not a copy.
normalizeVNode_NoSlice(s, child) ==
  CASE typeof(child) \in {"null", "undefined", "boolean"} ->
         createVNode(s, TypeArg(Comment), NullRef, JNull, 0, FALSE)
    [] typeof(child) = "array" ->
         createVNode(s, TypeArg(Fragment), NullRef, child, 0, FALSE)
    [] typeof(child) = "vnode" -> cloneIfMounted(s, child[2])
    [] OTHER ->
         createVNode(s, TypeArg(Text), NullRef, JString(String(child)), 0,
                     FALSE)

\* normalizeVNode(child): the state after it, with the node returned.
\* child.slice() is a new array with the same elements.
normalizeVNode(s, child) ==
  CASE typeof(child) \in {"null", "undefined", "boolean"} ->
         createVNode(s, TypeArg(Comment), NullRef, JNull, 0, FALSE)
    [] typeof(child) = "array" ->
         createVNode([s EXCEPT !.arrays = Append(@, s.arrays[child[2]])],
                     TypeArg(Fragment), NullRef, JArray(Len(s.arrays) + 1),
                     0, FALSE)
    [] typeof(child) = "vnode" -> cloneIfMounted(s, child[2])
    [] OTHER ->
         createVNode(s, TypeArg(Text), NullRef, JString(String(child)), 0,
                     FALSE)

\* Faulty variant: the root is not entered in the enclosing block.
setupBlock_RootNotTracked(s, id) ==
  LET s1 == [s EXCEPT !.vnodes[id].dynamicChildren =
               IF s.isBlockTreeEnabled > 0
               THEN IF s.currentBlock # NullRef
                    THEN s.currentBlock
                    ELSE EMPTY_ARR
               ELSE NullRef]
  IN closeBlock(s1)

\* Faulty variant: no sentinel stands in for a block without a list.
setupBlock_NoSentinel(s, id) ==
  LET s1 == [s EXCEPT !.vnodes[id].dynamicChildren =
               IF s.isBlockTreeEnabled > 0 THEN s.currentBlock ELSE NullRef]
      s2 == closeBlock(s1)
  IN IF s2.isBlockTreeEnabled > 0 /\ s2.currentBlock # NullRef
     THEN push(s2, s2.currentBlock, id)
     ELSE s2

\* Faulty variant: the list is attached whatever the tracking counter is.
setupBlock_AlwaysAttaches(s, id) ==
  LET s1 == [s EXCEPT !.vnodes[id].dynamicChildren =
               IF s.currentBlock # NullRef THEN s.currentBlock ELSE EMPTY_ARR]
      s2 == closeBlock(s1)
  IN IF s2.isBlockTreeEnabled > 0 /\ s2.currentBlock # NullRef
     THEN push(s2, s2.currentBlock, id)
     ELSE s2

\* setupBlock on the node just constructed
setupBlock(s, id) ==
  LET s1 == [s EXCEPT !.vnodes[id].dynamicChildren =
               IF s.isBlockTreeEnabled > 0
               THEN IF s.currentBlock # NullRef
                    THEN s.currentBlock
                    ELSE EMPTY_ARR
               ELSE NullRef]
      s2 == closeBlock(s1)
  IN IF s2.isBlockTreeEnabled > 0 /\ s2.currentBlock # NullRef
     THEN push(s2, s2.currentBlock, id)
     ELSE s2

createElementBlock(s, type, props, children, patchFlag) ==
  The({setupBlock(s1, s1.returned)
         : s1 \in {createBaseVNode(s, type, props, children, patchFlag,
                                   DefaultShapeFlag(type), TRUE, FALSE)}})

createBlock(s, arg, props, children, patchFlag) ==
  The({setupBlock(s1, s1.returned)
         : s1 \in {createVNode(s, arg, props, children, patchFlag, TRUE)}})

\* Faulty variant: keys are compared as SameValue, under which NaN is NaN.
isSameVNodeType_SameValue(s, n1, n2, hmrDirty) ==
  IF DEV /\ BitAnd(s.vnodes[n2].shapeFlag, COMPONENT) # 0 /\ hmrDirty
  THEN FALSE
  ELSE /\ StrictEquals(s.vnodes[n1].type, s.vnodes[n2].type)
       /\ s.vnodes[n1].key = s.vnodes[n2].key

\* isSameVNodeType(n1, n2): the value returned.  hmrDirty says whether
\* hmrDirtyComponents holds n2's type.
isSameVNodeType(s, n1, n2, hmrDirty) ==
  IF DEV /\ BitAnd(s.vnodes[n2].shapeFlag, COMPONENT) # 0 /\ hmrDirty
  THEN FALSE
  ELSE /\ StrictEquals(s.vnodes[n1].type, s.vnodes[n2].type)
       /\ StrictEquals(s.vnodes[n1].key, s.vnodes[n2].key)

\* the shape flags isSameVNodeType clears on its way
afterIsSameVNodeType(s, n1, n2, hmrDirty) ==
  IF DEV /\ BitAnd(s.vnodes[n2].shapeFlag, COMPONENT) # 0 /\ hmrDirty
  THEN LET a == [s EXCEPT !.vnodes[n1].shapeFlag =
                   BitAnd(@, BitNot(COMPONENT_SHOULD_KEEP_ALIVE))]
       IN [a EXCEPT !.vnodes[n2].shapeFlag =
             BitAnd(@, BitNot(COMPONENT_KEPT_ALIVE))]
  ELSE s

---------------------------------------------------------------------------
(* Applications: createAppAPI(render, hydrate) *)

\* The state of the applications as one value.  apps[i] is the closure of
\* the i-th createApp call: the handle (_uid, _component, _props,
\* _container), isMounted and installedPlugins.  invoked is a history of
\* the plugins whose install routine, or which themselves, were called.
\* containers[c] is c.__vue_app__: an application, or NullRef when the
\* property is not there.
Ap ==
  [apps |-> apps, containers |-> containers, currentApp |-> currentApp,
   rendered |-> rendered, warnings |-> warnings, running |-> running]

AppBecomes(a) ==
  /\ apps' = a.apps
  /\ containers' = a.containers
  /\ currentApp' = a.currentApp
  /\ rendered' = a.rendered
  /\ warnings' = a.warnings
  /\ running' = a.running

\* the nodes and the applications together
World == [s |-> St, a |-> Ap, value |-> JUndefined]

\* __DEV__ && warn(msg)
warn(a, msg) == IF DEV THEN [a EXCEPT !.warnings = Append(@, msg)] ELSE a

\* rootProps as the caller writes it: null, an object Some(m), or another
\* value
isObjectProps(rootProps) == rootProps # Null /\ Len(rootProps) = 1

\* createApp(rootComponent, rootProps); hydrate tells whether the renderer
\* that made createApp came with a hydrate function
createApp(w, rootComponent, rootProps, hydrate) ==
  [s |-> IF isObjectProps(rootProps)
         THEN [w.s EXCEPT !.objects = Append(@, rootProps[1])]
         ELSE w.s,
   a |-> [(IF rootProps # Null /\ ~isObjectProps(rootProps)
           THEN warn(w.a, "root props passed to app.mount() must be an object.")
           ELSE w.a)
          EXCEPT !.apps =
            Append(@, [uid |-> Len(w.a.apps),
                       component |-> rootComponent,
                       props |-> IF isObjectProps(rootProps)
                                 THEN Len(w.s.objects) + 1 ELSE NullRef,
                       container |-> "null",
                       isMounted |-> FALSE,
                       installedPlugins |-> {},
                       invoked |-> <<>>,
                       hydrate |-> hydrate])],
   value |-> Len(w.a.apps) + 1]

\* Faulty variant: mount goes on whether the application is mounted or not.
canMount_Always(a, app) == TRUE

\* line 395: if (!isMounted)
canMount(a, app) == ~a.apps[app].isMounted

\* lines 398-404: a container that has an application is reported
occupied(a, rootContainer) ==
  IF DEV /\ a.containers[rootContainer] # NullRef
  THEN warn(a, "There is already an app instance mounted on the host container.")
  ELSE a

\* lines 406-410: the root node, with the context of the application
rootVNode(s, a, app) ==
  The({[s1 EXCEPT !.vnodes[s1.returned].appContext = app]
       : s1 \in {createVNode(s, TypeArg(a.apps[app].component),
                             a.apps[app].props, JNull, 0, FALSE)}})

\* lines 420-424: hydrate or render is called.  What is recorded is the
\* call and what the renderer can find at that moment.
mountRender(a, s, app, rootContainer, isHydrate) ==
  [a EXCEPT !.rendered =
     Append(@, [fn |-> IF isHydrate /\ a.apps[app].hydrate
                       THEN "hydrate" ELSE "render",
                vnode |-> s.returned,
                container |-> rootContainer,
                app |-> app,
                type |-> s.vnodes[s.returned].type,
                props |-> s.vnodes[s.returned].props,
                appContext |-> s.vnodes[s.returned].appContext,
                isMounted |-> a.apps[app].isMounted,
                appContainer |-> a.apps[app].container,
                backReference |-> a.containers[rootContainer],
                thrown |-> FALSE])]

\* Faulty variant: the back-reference of a container that has one is kept.
mountDone_KeepsBackReference(a, app, rootContainer) ==
  [a EXCEPT !.apps[app].isMounted = TRUE,
            !.apps[app].container = rootContainer,
            !.containers[rootContainer] = IF @ = NullRef THEN app ELSE @]

\* lines 426-432: isMounted = true; app._container = rootContainer;
\* rootContainer.__vue_app__ = app
mountDone(a, app, rootContainer) ==
  [a EXCEPT !.apps[app].isMounted = TRUE,
            !.apps[app].container = rootContainer,
            !.containers[rootContainer] = app]

\* Faulty variant: the application is marked mounted before the renderer
\* is called.
mount_MarksBeforeRender(w, app, rootContainer, isHydrate) ==
  IF canMount(w.a, app)
  THEN The({[s |-> s1,
             a |-> mountRender(mountDone(occupied(w.a, rootContainer),
                                         app, rootContainer),
                               s1, app, rootContainer, isHydrate),
             value |-> <<"proxy", app>>]
            : s1 \in {rootVNode(w.s, w.a, app)}})
  ELSE [s |-> w.s, a |-> warn(w.a, "App has already been mounted."),
        value |-> JUndefined]

\* app.mount(rootContainer, isHydrate); the value is the proxy of the root
\* component, or undefined
mount(w, app, rootContainer, isHydrate) ==
  IF canMount(w.a, app)
  THEN The({[s |-> s1,
             a |-> mountDone(mountRender(occupied(w.a, rootContainer),
                                         s1, app, rootContainer, isHydrate),
                             app, rootContainer),
             value |-> <<"proxy", app>>]
            : s1 \in {rootVNode(w.s, w.a, app)}})
  ELSE [s |-> w.s, a |-> warn(w.a, "App has already been mounted."),
        value |-> JUndefined]

\* the call of the renderer made last has thrown
threw(a) == [a EXCEPT !.rendered[Len(a.rendered)].thrown = TRUE]

\* Faulty variant: the application is marked mounted before the renderer
\* is called, and stays so when the renderer throws.
mountThrows_MarksBeforeRender(w, app, rootContainer, isHydrate) ==
  The({[s |-> s1,
        a |-> threw(mountRender(mountDone(occupied(w.a, rootContainer),
                                          app, rootContainer),
                                s1, app, rootContainer, isHydrate)),
        value |-> JUndefined]
       : s1 \in {rootVNode(w.s, w.a, app)}})

\* app.mount(rootContainer, isHydrate) of an application that is not
\* mounted, when render or hydrate throws: lines 395-424 have run, and the
\* exception leaves mount before line 426
mountThrows(w, app, rootContainer, isHydrate) ==
  The({[s |-> s1,
        a |-> threw(mountRender(occupied(w.a, rootContainer),
                                s1, app, rootContainer, isHydrate)),
        value |-> JUndefined]
       : s1 \in {rootVNode(w.s, w.a, app)}})

\* Faulty variant: nothing is rendered.
unmountRender_Nothing(a, app) == a

\* line 456: render(null, app._container)
unmountRender(a, app) ==
  [a EXCEPT !.rendered =
     Append(@, [fn |-> "render",
                vnode |-> NullRef,
                container |-> a.apps[app].container,
                app |-> app,
                type |-> "null",
                props |-> NullRef,
                appContext |-> NullRef,
                isMounted |-> a.apps[app].isMounted,
                appContainer |-> a.apps[app].container,
                backReference |-> a.containers[a.apps[app].container],
                thrown |-> FALSE])]

\* Faulty variant: the back-reference stays.
unmountDone_KeepsBackReference(a, app) == a

\* Faulty variant: the back-reference of every container is removed.
unmountDone_ClearsAll(a, app) ==
  [a EXCEPT !.containers = [c \in DOMAIN @ |-> NullRef]]

\* line 465: delete app._container.__vue_app__
unmountDone(a, app) ==
  [a EXCEPT !.containers[a.apps[app].container] = NullRef]

\* app.unmount()
unmount(w, app) ==
  IF w.a.apps[app].isMounted
  THEN [w EXCEPT !.a = unmountDone(unmountRender(w.a, app), app)]
  ELSE [w EXCEPT !.a = warn(w.a, "Cannot unmount an app that is not mounted.")]

\* The plugins a caller can hand to app.use.  A plugin is a value with an
\* identity: it may be callable, it may have an install function, and its
\* routine may call app.use itself.  pluginP installs itself again from
\* inside its install routine; pluginF is a function that installs
\* pluginP and pluginQ; pluginQ is a function with an install property;
\* pluginX is an object without an install function.
Plugins ==
  ("pluginP" :> [callable |-> FALSE, install |-> TRUE, uses |-> <<"pluginP">>])
  @@ ("pluginF" :> [callable |-> TRUE, install |-> FALSE,
                    uses |-> <<"pluginP", "pluginQ">>])
  @@ ("pluginQ" :> [callable |-> TRUE, install |-> TRUE, uses |-> <<>>])
  @@ ("pluginX" :> [callable |-> FALSE, install |-> FALSE, uses |-> <<>>])

\* line 316: installedPlugins.has(plugin)
has(a, app, plugin) == plugin \in a.apps[app].installedPlugins

\* Faulty variant: only plugins with an install function are remembered.
add_InstallOnly(a, app, plugin) ==
  IF Plugins[plugin].install
  THEN [a EXCEPT !.apps[app].installedPlugins = @ \cup {plugin}]
  ELSE a

\* lines 320, 325: installedPlugins.add(plugin)
add(a, app, plugin) ==
  [a EXCEPT !.apps[app].installedPlugins = @ \cup {plugin}]

\* the routine of the plugin is entered: plugin.install(app) or plugin(app)
entered(a, app, plugin, via) ==
  [a EXCEPT !.apps[app].invoked = Append(@, [plugin |-> plugin, via |-> via])]

RECURSIVE use(_, _, _)
RECURSIVE useAll(_, _, _)

\* the body of a plugin's routine: its calls of app.use, in order
useAll(a, app, plugins) ==
  IF plugins = <<>> THEN a
  ELSE useAll(use(a, app, Head(plugins)), app, Tail(plugins))

\* lines 314-335: app.use(plugin); the value of the call is app
use(a, app, plugin) ==
  IF has(a, app, plugin)
  THEN warn(a, "Plugin has already been applied to target app.")
  ELSE IF Plugins[plugin].install
  THEN useAll(entered(add(a, app, plugin), app, plugin, "install"),
              app, Plugins[plugin].uses)
  ELSE IF Plugins[plugin].callable
  THEN useAll(entered(add(a, app, plugin), app, plugin, "call"),
              app, Plugins[plugin].uses)
  ELSE warn(a, "A plugin must either be a function or an object with an \"install\" function.")

\* line 486: currentApp = app, and fn is called.  The frame remembers
\* what currentApp was and whether a runWithContext called by fn has
\* returned.
enter(a, app) ==
  [a EXCEPT !.currentApp = app,
            !.running = Append(@, [app |-> app, before |-> a.currentApp,
                                   returned |-> FALSE])]

\* the caller's callback goes on after the call it made
resumed(frames) ==
  IF frames = <<>> THEN frames
  ELSE [frames EXCEPT ![Len(frames)].returned = TRUE]

\* Faulty variant: currentApp is left as it is.
leave_KeepsCurrentApp(a) ==
  [a EXCEPT !.running = resumed(SubSeq(@, 1, Len(@) - 1))]

\* lines 489-491: fn has returned or thrown; finally { currentApp = null }
leave(a) ==
  [a EXCEPT !.currentApp = NullRef,
            !.running = resumed(SubSeq(@, 1, Len(@) - 1))]

---------------------------------------------------------------------------
(* The calls a render function makes *)

\* The objects a caller writes as arguments exist before the call: a
\* props literal Some(m) becomes a new props object, an array literal
\* ArrayOf(seq) a new array.
ArrayOf(seq) == <<"literal", seq>>

withArgs(s, props, children) ==
  [s EXCEPT !.objects = IF props = Null THEN @ ELSE Append(@, props[1]),
            !.arrays = IF typeof(children) = "literal"
                       THEN Append(@, children[2]) ELSE @]

propsArg(s, props) ==
  IF props = Null THEN NullRef ELSE Len(s.objects) + 1

childrenArg(s, children) ==
  IF typeof(children) = "literal" THEN JArray(Len(s.arrays) + 1)
  ELSE children

\* what is remembered of the call that constructs the next node
Call(op, arg, props, children, isBlockNode) ==
  [op |-> op, arg |-> arg, props |-> props, children |-> children,
   isBlockNode |-> isBlockNode,
   tracking |-> isBlockTreeEnabled > 0,
   currentBlock |-> currentBlock,
   enclosing |-> IF isBlockNode /\ Len(blockStack) >= 2
                 THEN blockStack[Len(blockStack) - 1]
                 ELSE NullRef]

\* a node the call made on its way (a text node, a deep clone)
Internal == Call("internal", TypeArg("internal"), Null, JNull, FALSE)

\* the step to state s, in which the call made the node s.returned
Does(after, call) ==
  \E s \in {after} :
    /\ Becomes(s)
    /\ calls' = calls \o [i \in 1..(Len(s.vnodes) - Len(vnodes)) |->
                            IF Len(vnodes) + i = s.returned THEN call
                            ELSE Internal]

Init ==
  /\ vnodes = <<>>
  /\ arrays = << <<>> >>
  /\ objects = <<>>
  /\ blockStack = <<>>
  /\ currentBlock = NullRef
  /\ isBlockTreeEnabled = 1
  /\ calls = <<>>
  /\ suspended = 0
  /\ compared = <<>>
  /\ lastCall = <<>>
  /\ opened = <<>>
  /\ apps = <<>>
  /\ containers = [c \in HostContainers |-> NullRef]
  /\ currentApp = NullRef
  /\ running = <<>>
  /\ rendered = <<>>
  /\ warnings = <<>>

\* History of the open blocks: what each openBlock not yet matched by a
\* close found, the stack, the current block and the nodes listed in it.
Found ==
  [blockStack |-> blockStack, currentBlock |-> currentBlock,
   items |-> IF currentBlock = NullRef THEN <<>> ELSE arrays[currentBlock]]

Closed(h) == IF h = <<>> THEN h ELSE SubSeq(h, 1, Len(h) - 1)

\* A block is opened only while enough nodes are left to close every open
\* block, and tracking is switched only while a node is left to build.
OpenBlock(disable, max) ==
  \E disableTracking \in disable :
    /\ Len(blockStack) + Len(vnodes) < max
    /\ Becomes(openBlock(St, disableTracking))
    /\ opened' = Append(opened, Found)
    /\ UNCHANGED <<calls, suspended, compared, lastCall, appVars>>

\* The construction of a child throws after openBlock and before the block
\* root is made, and the exception leaves the render function.  No
\* function of vnode.ts catches it or has a finally block, so unwinding
\* runs no statement of it: the variables stay as they are.  The history
\* keeps what the first unmatched openBlock found and which lists the
\* unmatched blocks were collecting.
Throw ==
  /\ opened # <<>>
  /\ lastCall' = <<[op |-> "throw",
                    arg |-> [before |-> opened[1],
                             lists |-> {blockStack[i] :
                                          i \in (Len(opened[1].blockStack) + 1)
                                                  ..Len(blockStack)}
                                         \ {NullRef}],
                    value |-> JUndefined]>>
  /\ opened' = <<>>
  /\ UNCHANGED <<vnodes, arrays, objects, blockStack, currentBlock,
                 isBlockTreeEnabled, calls, suspended, compared, appVars>>

CloseBlock ==
  /\ Becomes(closeBlock(St))
  /\ opened' = Closed(opened)
  /\ lastCall' = <<[op |-> "closeBlock", arg |-> Len(blockStack),
                    value |-> JUndefined]>>
  /\ UNCHANGED <<calls, suspended, compared, appVars>>

\* The compiler emits setBlockTracking(-1) before the setBlockTracking(1)
\* that matches it, so the counter stays at or below its initial 1.
SetBlockTracking(max) ==
  \E value \in {-1, 1} :
    /\ Len(vnodes) < max
    /\ isBlockTreeEnabled + value >= 1 - MaxSuspend
    /\ isBlockTreeEnabled + value <= 1
    /\ Becomes(setBlockTracking(St, value))
    /\ suspended' = suspended - value
    /\ UNCHANGED <<calls, compared, lastCall, opened, appVars>>

CreateElementVNode(types, propss, childrens, flags, max) ==
  \E type \in types, props \in propss, children \in childrens,
     patchFlag \in flags :
    /\ Len(vnodes) < max
    /\ Does(createElementVNode(withArgs(St, props, children), type,
               propsArg(St, props), childrenArg(St, children), patchFlag),
            Call("createElementVNode", TypeArg(type), props, children, FALSE))
    /\ UNCHANGED <<suspended, compared, lastCall, opened, appVars>>

CreateElementBlock(types, propss, childrens, flags, max) ==
  \E type \in types, props \in propss, children \in childrens,
     patchFlag \in flags :
    /\ Len(vnodes) < max
    /\ Does(createElementBlock(withArgs(St, props, children), type,
               propsArg(St, props), childrenArg(St, children), patchFlag),
            Call("createElementBlock", TypeArg(type), props, children, TRUE))
    /\ opened' = Closed(opened)
    /\ UNCHANGED <<suspended, compared, lastCall, appVars>>

CreateVNode(types, propss, childrens, flags, max) ==
  \E type \in types, props \in propss, children \in childrens,
     patchFlag \in flags :
    /\ Len(vnodes) < max
    /\ Does(createVNode(withArgs(St, props, children), TypeArg(type),
               propsArg(St, props), childrenArg(St, children), patchFlag,
               FALSE),
            Call("createVNode", TypeArg(type), props, children, FALSE))
    /\ UNCHANGED <<suspended, compared, lastCall, opened, appVars>>

CreateBlock(types, propss, childrens, flags, max) ==
  \E type \in types, props \in propss, children \in childrens,
     patchFlag \in flags :
    /\ Len(vnodes) < max
    /\ Does(createBlock(withArgs(St, props, children), TypeArg(type),
               propsArg(St, props), childrenArg(St, children), patchFlag),
            Call("createBlock", TypeArg(type), props, children, TRUE))
    /\ opened' = Closed(opened)
    /\ UNCHANGED <<suspended, compared, lastCall, appVars>>

\* createVNode(vnode, props, children): the type is a node constructed
\* before
CreateVNodeOfVNode(propss, childrens, max) ==
  \E n \in 1..Len(vnodes), props \in propss, children \in childrens :
    /\ Len(vnodes) < max
    /\ Does(createVNode(withArgs(St, props, children), VNodeArg(n),
               propsArg(St, props), childrenArg(St, children), 0, FALSE),
            Call("createVNode", VNodeArg(n), props, children, FALSE))
    /\ UNCHANGED <<suspended, compared, lastCall, opened, appVars>>

CreateBlockOfVNode(propss, childrens, max) ==
  \E n \in 1..Len(vnodes), props \in propss, children \in childrens :
    /\ Len(vnodes) < max
    /\ Does(createBlock(withArgs(St, props, children), VNodeArg(n),
               propsArg(St, props), childrenArg(St, children), 0),
            Call("createBlock", VNodeArg(n), props, children, TRUE))
    /\ opened' = Closed(opened)
    /\ UNCHANGED <<suspended, compared, lastCall, appVars>>

\* cloneVNode(vnode, extraProps, mergeRef) on a node constructed before
CloneVNode(propss, mergeRefs, max) ==
  \E n \in 1..Len(vnodes), extraProps \in propss, mergeRef \in mergeRefs :
    /\ Len(vnodes) < max
    /\ Does(cloneVNode(withArgs(St, extraProps, JNull), n,
                       propsArg(St, extraProps), mergeRef),
            Call("cloneVNode", VNodeArg(n), extraProps, JNull, FALSE)
              @@ [mergeRef |-> mergeRef])
    /\ UNCHANGED <<suspended, compared, lastCall, opened, appVars>>

\* The caller that holds the node returned last writes into its props
\* object: vnode.props.id = value.
WriteProps(values) ==
  \E value \in values :
    LET n == Len(vnodes)
        props == IF n = 0 THEN NullRef ELSE vnodes[n].props
    IN /\ props # NullRef
       /\ objects' = [objects EXCEPT ![props] =
                        [k \in DOMAIN objects[props] \cup {"id"} |->
                           IF k = "id" THEN value ELSE objects[props][k]]]
       /\ UNCHANGED <<vnodes, arrays, blockStack, currentBlock,
                      isBlockTreeEnabled, calls, suspended, compared, lastCall,
                 opened, appVars>>

\* a node that has no list of children
IsLeaf(m) == typeof(vnodes[m].children) # "array"

\* The caller pushes a node into the children list of the node returned
\* last: vnode.children.push(child).
PushChildren(max) ==
  \E m \in 1..Len(vnodes) :
    LET n == Len(vnodes)
        children == vnodes[n].children
    IN /\ typeof(children) = "array"
       /\ IsLeaf(m)
       /\ Len(arrays[children[2]]) < max
       /\ Becomes(push(St, children[2], m))
       /\ UNCHANGED <<calls, suspended, compared, lastCall, opened, appVars>>

\* The caller pushes a node into the dynamicChildren list of the node
\* returned last; EMPTY_ARR is frozen and cannot be written.
PushDynamicChildren(max) ==
  \E m \in 1..Len(vnodes) :
    LET n == Len(vnodes)
        list == vnodes[n].dynamicChildren
    IN /\ list \notin {NullRef, EMPTY_ARR}
       /\ IsLeaf(m)
       /\ Len(arrays[list]) < max
       /\ Becomes(push(St, list, m))
       /\ UNCHANGED <<calls, suspended, compared, lastCall, opened, appVars>>

\* The renderer mounts a node: el becomes the host node made for it.
Mount ==
  \E n \in 1..Len(vnodes) :
    /\ vnodes[n].el = NullRef
    /\ vnodes' = [vnodes EXCEPT ![n].el = n]
    /\ UNCHANGED <<arrays, objects, blockStack, currentBlock,
                   isBlockTreeEnabled, calls, suspended, compared, lastCall,
                 opened, appVars>>

\* v-memo attaches its dependencies to the node a render returned, the
\* node constructed last.
WithMemo ==
  /\ Len(vnodes) > 0
  /\ ~vnodes[Len(vnodes)].memo
  /\ vnodes' = [vnodes EXCEPT ![Len(vnodes)].memo = TRUE]
  /\ UNCHANGED <<arrays, objects, blockStack, currentBlock,
                 isBlockTreeEnabled, calls, suspended, compared, lastCall,
                 opened, appVars>>

\* normalizeVNode(child), child being one of the values given or a node
\* constructed before
NormalizeVNode(childs, max) ==
  \E child \in childs \cup {JVNode(n) : n \in 1..Len(vnodes)} :
    /\ Len(vnodes) < max
    /\ \E s \in {normalizeVNode(withArgs(St, Null, child),
                                 childrenArg(St, child))} :
         /\ Does(s, Call("normalizeVNode",
                         IF typeof(child) = "vnode" THEN VNodeArg(child[2])
                         ELSE TypeArg(s.vnodes[s.returned].type),
                         Null, childrenArg(St, child), FALSE))
         /\ lastCall' = <<[op |-> "normalizeVNode",
                           arg |-> childrenArg(St, child),
                           value |-> s.returned]>>
    /\ UNCHANGED <<suspended, compared, opened, appVars>>

\* mergeProps(...args): the arguments are props objects written by the
\* caller; the object returned is new and the arguments are left alone
MergeProps(propss, max) ==
  \E n \in 1..max :
    \E args \in [1..n -> propss] :
      /\ lastCall' = <<[op |-> "mergeProps", arg |-> args,
                        value |-> mergeProps(args)]>>
      /\ UNCHANGED <<vnodes, arrays, objects, blockStack, currentBlock,
                     isBlockTreeEnabled, calls, suspended, compared, opened,
                     appVars>>

\* createApp(rootComponent, rootProps) of a renderer with or without a
\* hydrate function
CreateApp(components, propss, max) ==
  \E rootComponent \in components, rootProps \in propss, hydrate \in BOOLEAN :
    /\ Len(apps) < max
    /\ \E w \in {createApp(World, rootComponent, rootProps, hydrate)} :
         /\ Becomes(w.s)
         /\ AppBecomes(w.a)
         /\ lastCall' = <<[op |-> "createApp",
                           arg |-> <<rootComponent, rootProps>>,
                           value |-> w.value]>>
    /\ UNCHANGED <<calls, suspended, compared, opened>>

\* what the host has been told so far: calls of the renderer, diagnostics
HostCalls == Len(rendered) + Len(warnings)

\* app.mount(rootContainer, isHydrate) on an application created before
MountApp(max) ==
  \E app \in 1..Len(apps), rootContainer \in HostContainers,
     isHydrate \in BOOLEAN :
    /\ HostCalls < max
    /\ \E w \in {mount(World, app, rootContainer, isHydrate)} :
         /\ Does(w.s, Call("createVNode", TypeArg(apps[app].component),
                           IF apps[app].props = NullRef THEN Null
                           ELSE Some(objects[apps[app].props]),
                           JNull, FALSE))
         /\ AppBecomes(w.a)
         /\ lastCall' = <<[op |-> "mount",
                           arg |-> <<app, rootContainer, isHydrate>>,
                           value |-> w.value]>>
    /\ UNCHANGED <<suspended, compared, opened>>

\* app.mount(rootContainer, isHydrate) on an application that is not
\* mounted, with a renderer that throws
MountAppThrows(max) ==
  \E app \in 1..Len(apps), rootContainer \in HostContainers,
     isHydrate \in BOOLEAN :
    /\ HostCalls < max
    /\ canMount(Ap, app)
    /\ \E w \in {mountThrows(World, app, rootContainer, isHydrate)} :
         /\ Does(w.s, Call("createVNode", TypeArg(apps[app].component),
                           IF apps[app].props = NullRef THEN Null
                           ELSE Some(objects[apps[app].props]),
                           JNull, FALSE))
         /\ AppBecomes(w.a)
         /\ lastCall' = <<[op |-> "mount throws",
                           arg |-> <<app, rootContainer, isHydrate>>,
                           value |-> w.value]>>
    /\ UNCHANGED <<suspended, compared, opened>>

\* app.unmount()
UnmountApp(max) ==
  \E app \in 1..Len(apps) :
    /\ HostCalls < max
    /\ \E w \in {unmount(World, app)} :
         /\ Becomes(w.s)
         /\ AppBecomes(w.a)
         /\ lastCall' = <<[op |-> "unmount", arg |-> <<app>>,
                           value |-> w.value]>>
    /\ UNCHANGED <<calls, suspended, compared, opened>>

\* the times a plugin routine has been entered, in all applications
RECURSIVE Entries(_)
Entries(n) == IF n = 0 THEN 0 ELSE Len(apps[n].invoked) + Entries(n - 1)

\* app.use(plugin) on an application created before
Use(plugins, max) ==
  \E app \in 1..Len(apps), plugin \in plugins :
    /\ Entries(Len(apps)) + Len(warnings) < max
    /\ AppBecomes(use(Ap, app, plugin))
    /\ lastCall' = <<[op |-> "use", arg |-> <<app, plugin>>, value |-> app]>>
    /\ UNCHANGED <<vnodes, arrays, objects, blockStack, currentBlock,
                   isBlockTreeEnabled, calls, suspended, compared, opened>>

\* app.runWithContext(fn) is called, from outside or by a callback that is
\* running, and calls fn
RunWithContext(max) ==
  \E app \in 1..Len(apps) :
    /\ Len(running) < max
    /\ AppBecomes(enter(Ap, app))
    /\ lastCall' = <<[op |-> "runWithContext", arg |-> <<app>>,
                      value |-> JUndefined]>>
    /\ UNCHANGED <<vnodes, arrays, objects, blockStack, currentBlock,
                   isBlockTreeEnabled, calls, suspended, compared, opened>>

\* the innermost callback returns or throws, and its runWithContext with it
RunWithContextEnds ==
  \E thrown \in BOOLEAN :
    /\ running # <<>>
    /\ AppBecomes(leave(Ap))
    /\ lastCall' = <<[op |-> "runWithContext ends",
                      arg |-> <<running[Len(running)].app, thrown>>,
                      value |-> JUndefined]>>
    /\ UNCHANGED <<vnodes, arrays, objects, blockStack, currentBlock,
                   isBlockTreeEnabled, calls, suspended, compared, opened>>

IsSameVNodeType ==
  \E n1 \in 1..Len(vnodes), n2 \in 1..Len(vnodes), hmrDirty \in BOOLEAN :
    /\ Becomes(afterIsSameVNodeType(St, n1, n2, hmrDirty))
    /\ compared' = <<[n1 |-> n1, n2 |-> n2, hmrDirty |-> hmrDirty,
                      value |-> isSameVNodeType(St, n1, n2, hmrDirty)]>>
    /\ UNCHANGED <<calls, suspended, lastCall, opened, appVars>>

NoProps == {Null}
NoChildren == {JNull}
ExtraProps == {Null, Some("id" :> "x")}

---------------------------------------------------------------------------
(* Spec: a render function that nests blocks, builds elements and         *)
(* components in them, reuses nodes and suspends tracking                  *)

Next ==
  \/ OpenBlock(BOOLEAN, MaxNodes)
  \/ SetBlockTracking(MaxNodes)
  \/ CreateElementVNode({"div"}, NoProps, NoChildren, {0, TEXT}, MaxNodes)
  \/ CreateElementBlock({Fragment}, NoProps, NoChildren, {0}, MaxNodes)
  \/ CreateVNode({"Comp"}, NoProps, NoChildren, {0}, MaxNodes)
  \/ CreateBlock({"Comp"}, NoProps, NoChildren, {0}, MaxNodes)
  \/ CreateVNodeOfVNode(NoProps, NoChildren, MaxNodes)
  \/ CreateBlockOfVNode(NoProps, NoChildren, MaxNodes)

Spec == Init /\ [][Next]_vars

---------------------------------------------------------------------------
(* SpecFlat: blocks with up to three children, tracking enabled           *)
(* throughout                                                              *)

ChildFlags == {0, TEXT, CLASS, HYDRATE_EVENTS}

NextFlat ==
  \/ OpenBlock({FALSE}, MaxFlatNodes)
  \/ CreateElementVNode({"div"}, NoProps, NoChildren, ChildFlags, MaxFlatNodes)
  \/ CreateVNode({"Comp"}, NoProps, NoChildren, {0, HYDRATE_EVENTS}, MaxFlatNodes)
  \/ CreateVNodeOfVNode(NoProps, NoChildren, MaxFlatNodes)
  \/ CreateElementBlock({"div"}, NoProps, NoChildren, {0}, MaxFlatNodes)

SpecFlat == Init /\ [][NextFlat]_vars

---------------------------------------------------------------------------
(* SpecClone: createVNode on nodes built before, with and without props   *)

NextClone ==
  \/ OpenBlock({FALSE}, MaxCloneNodes)
  \/ CreateElementVNode({"div", Fragment}, NoProps, NoChildren, {TEXT, HOISTED}, MaxCloneNodes)
  \/ CreateVNode({"Comp"}, NoProps, NoChildren, {0}, MaxCloneNodes)
  \/ CreateVNodeOfVNode(ExtraProps, NoChildren, MaxCloneNodes)
  \/ CreateBlockOfVNode(ExtraProps, NoChildren, MaxCloneNodes)

SpecClone == Init /\ [][NextClone]_vars

---------------------------------------------------------------------------
(* SpecTypes: createVNode and createBlock on every kind of type           *)

NextTypes ==
  \/ OpenBlock({FALSE}, MaxTypeNodes)
  \/ CreateVNode(TypeValues, NoProps, NoChildren, {0, TEXT}, MaxTypeNodes)
  \/ CreateBlock({"div", "", "Comp", "null"}, NoProps, NoChildren, {0}, MaxTypeNodes)
  \/ CreateVNodeOfVNode(NoProps, NoChildren, MaxTypeNodes)

SpecTypes == Init /\ [][NextTypes]_vars

---------------------------------------------------------------------------
(* SpecKey: keyed nodes and their comparison                              *)

KeyedProps ==
  {Null, Some("key" :> "a"), Some("key" :> "b"), Some("key" :> "NaN")}

NextKey ==
  \/ CreateVNode({"div", "Comp"}, KeyedProps, NoChildren, {0}, MaxKeyNodes)
  \/ IsSameVNodeType

SpecKey == Init /\ [][NextKey]_vars

---------------------------------------------------------------------------
(* SpecFast: compiler-style calls, createElementVNode and                  *)
(* createElementBlock, with children of every type                         *)

MaxFastNodes == 2

\* an array literal of nodes built before: [] and [n]
NodeLists == {ArrayOf(<<>>)} \cup {ArrayOf(<<n>>) : n \in 1..Len(vnodes)}

AnyChildren ==
  {JNull, JUndefined, JString("t"), JString(""), JNumber(5), JNumber(0),
   JBoolean(TRUE), JBoolean(FALSE), JFunction("slotText"),
   SlotMap(JFunction("slotText"), "none", FALSE)} \cup NodeLists

NextFast ==
  \/ OpenBlock({FALSE}, MaxFastNodes)
  \/ CreateElementVNode({"div", Fragment}, NoProps, AnyChildren, {0},
                        MaxFastNodes)
  \/ CreateElementBlock({"div"}, NoProps, AnyChildren, {0}, MaxFastNodes)

SpecFast == Init /\ [][NextFast]_vars

---------------------------------------------------------------------------
(* SpecCopy: cloneVNode on nodes with and without a ref, with and without *)
(* extra props                                                             *)

MaxCopyNodes == 3

RefProps == {Null, Some("ref" :> JString("a"))}

ExtraRefProps ==
  {Null, Some(EmptyObject), Some("ref" :> JString("b")),
   Some("ref" :> JString("")), Some("ref" :> JNumber(0))}

NextCopy ==
  \/ CreateElementVNode({"div", Fragment}, RefProps, NoChildren, {0, TEXT, HOISTED}, MaxCopyNodes)
  \/ CloneVNode(ExtraRefProps, BOOLEAN, MaxCopyNodes)

SpecCopy == Init /\ [][NextCopy]_vars

---------------------------------------------------------------------------
(* SpecShare: nodes with props, children lists and dynamicChildren are    *)
(* cloned, and the caller writes into the containers of the node it got   *)

MaxShareNodes == 3
MaxPush == 1

NextShare ==
  \/ OpenBlock({FALSE}, MaxShareNodes)
  \/ CreateElementVNode({"div"}, {Some("id" :> "x")}, {ArrayOf(<<>>)}, {0, HOISTED}, MaxShareNodes)
  \/ CreateElementBlock({"div"}, NoProps, NoChildren, {0}, MaxShareNodes)
  \/ CloneVNode({Null, Some("id" :> "y")}, {FALSE}, MaxShareNodes)
  \/ WriteProps({"z"})
  \/ PushChildren(MaxPush)
  \/ PushDynamicChildren(MaxPush)

SpecShare == Init /\ [][NextShare]_vars

---------------------------------------------------------------------------
(* SpecNormalize: nodes, mounted or not, hoisted or not, with a memo or   *)
(* not, are normalized                                                     *)

MaxNormInputs == 2
MaxNormNodes == 3

NextNormalize ==
  \/ CreateElementVNode({"div"}, {Some("key" :> "a")}, {JNull} \cup NodeLists, {0, HOISTED}, MaxNormInputs)
  \/ Mount
  \/ WithMemo
  \/ NormalizeVNode({}, MaxNormNodes)

SpecNormalize == Init /\ [][NextNormalize]_vars

---------------------------------------------------------------------------
(* SpecValues: child values that are not nodes are normalized             *)

MaxValueNodes == 2

ChildValues ==
  {JNull, JUndefined, JBoolean(TRUE), JBoolean(FALSE), JNumber(0),
   JNumber(12), JString(""), JString("t")} \cup NodeLists

NextValues ==
  \/ OpenBlock({FALSE}, MaxValueNodes)
  \/ NormalizeVNode(ChildValues, MaxValueNodes)
  \/ PushChildren(MaxPush)

SpecValues == Init /\ [][NextValues]_vars

---------------------------------------------------------------------------
(* SpecSlots: elements, teleports, components and fragments are given     *)
(* slot maps and functions as children                                     *)

MaxSlotNodes == 2

SlotChildren ==
  {SlotMap(JFunction(f), "none", FALSE) : f \in SlotFunctions}
    \cup {SlotMap(JUndefined, "none", FALSE),
          SlotMap(JFunction("slotText"), "STABLE", TRUE),
          SlotMap(JFunction("slotText"), "FORWARDED", FALSE),
          JFunction("slotText")}

NextSlots ==
  \/ CreateVNode({"div", "TeleportImpl", "Comp", Fragment}, NoProps, SlotChildren, {0}, MaxSlotNodes)
  \/ CreateVNodeOfVNode(NoProps, SlotChildren, MaxSlotNodes)

SpecSlots == Init /\ [][NextSlots]_vars

---------------------------------------------------------------------------
(* SpecMerge: mergeProps is called on one to MaxMergeArgs props objects    *)
(* that carry classes, styles, event handlers and plain properties          *)

MaxMergeArgs == 3

ClassValues ==
  {JText(<<"a">>), JText(<<"b">>), JText(<<" ", "a">>), JText(<<>>),
   JNull, JUndefined,
   JList("c1", <<JText(<<"a">>), JText(<<"b">>)>>),
   JMap("c2", <<<< <<"a">>, JBoolean(TRUE)>>, << <<"b">>, JBoolean(FALSE)>>>>)}

HandlerValues ==
  {JFunction("f"), JFunction("g"),
   JList("h1", <<JFunction("f"), JFunction("g")>>), JUndefined}

StyleValues ==
  {JText(<<"c", ":", "r", ";", "w", ":">>),
   JMap("s1", <<<< <<"c">>, JText(<<"b">>)>>>>)}

MergeInputs ==
  {"class" :> c : c \in ClassValues}
    \cup {"onClick" :> h : h \in HandlerValues}
    \cup {"style" :> st : st \in StyleValues}
    \cup {"id" :> "x", "id" :> "y", "" :> "e",
          ("class" :> JText(<<"a">>)) @@ ("onClick" :> JFunction("f"))
            @@ ("id" :> "x"),
          ("" :> "e") @@ ("id" :> "z")
            @@ ("onUpdate:modelValue" :> JFunction("g"))}

\* one call is looked at: mergeProps reads nothing but its arguments
NextMerge == lastCall = <<>> /\ MergeProps(MergeInputs, MaxMergeArgs)

SpecMerge == Init /\ [][NextMerge]_vars

---------------------------------------------------------------------------
(* SpecStack: blocks are opened, with and without tracking, and closed by  *)
(* closeBlock and by the construction of block roots, in any order         *)

MaxStackNodes == 2
MaxStackFrames == 2

\* arrays[1] is EMPTY_ARR; every openBlock that tracks makes a new list
NextStack ==
  \/ Len(arrays) <= MaxStackFrames /\ OpenBlock(BOOLEAN, MaxStackNodes + 1)
  \/ CloseBlock
  \/ SetBlockTracking(MaxStackNodes)
  \/ CreateElementVNode({"div"}, NoProps, NoChildren, {TEXT}, MaxStackNodes)
  \/ CreateElementBlock({"div"}, NoProps, NoChildren, {0}, MaxStackNodes)
  \/ CreateBlock({"Comp"}, NoProps, NoChildren, {0}, MaxStackNodes)

SpecStack == Init /\ [][NextStack]_vars

---------------------------------------------------------------------------
(* SpecGuard: createVNode is given props objects that are plain, proxies   *)
(* or props of a component instance, with classes and styles to normalize  *)

MaxGuardNodes == 2

ClassList == JList("c1", <<JText(<<"a">>), JText(<<"b">>)>>)
ClassMap == JMap("c2", <<<< <<"a">>, JBoolean(TRUE)>>>>)
StyleEntries == <<<< <<"c">>, JText(<<"r">>)>>>>

GuardProps ==
  {Null,
   Some(("class" :> ClassList) @@ ("id" :> "x")),
   Some((ProxyMarker :> JBoolean(TRUE)) @@ ("class" :> ClassList)
          @@ ("style" :> JMap("s1", StyleEntries)) @@ ("id" :> "x")),
   Some((InternalObjectKey :> JNumber(1)) @@ ("class" :> ClassMap)),
   Some((ProxyMarker :> JBoolean(TRUE)) @@ ("class" :> JText(<<"a">>))
          @@ ("style" :> JList("s2", <<JText(<<"c", ":", "r">>)>>))),
   Some("style" :> JMap("reactive", StyleEntries)),
   Some((ProxyMarker :> JBoolean(TRUE))
          @@ ("style" :> JMap("reactive", StyleEntries))),
   Some("style" :> JList("reactive", <<JMap("s1", StyleEntries)>>))}

NextGuard ==
  CreateVNode({"div", "Comp"}, GuardProps, NoChildren, {0}, MaxGuardNodes)

SpecGuard == Init /\ [][NextGuard]_vars

---------------------------------------------------------------------------
(* SpecMount: applications are created, mounted in two containers and      *)
(* unmounted, in any order                                                  *)

MaxApps == 2
MaxHostCalls == 4

RootProps == {Null, Some("id" :> "x")}

NextMount ==
  \/ CreateApp({"Comp"}, RootProps, MaxApps)
  \/ MountApp(MaxHostCalls)
  \/ UnmountApp(MaxHostCalls)

SpecMount == Init /\ [][NextMount]_vars

---------------------------------------------------------------------------
(* SpecUse: plugins are installed in two applications, in any order and    *)
(* any number of times                                                      *)

MaxUseApps == 2
MaxUseCalls == 6

NextUse ==
  \/ CreateApp({"Comp"}, {Null}, MaxUseApps)
  \/ Use(DOMAIN Plugins, MaxUseCalls)

SpecUse == Init /\ [][NextUse]_vars

---------------------------------------------------------------------------
(* SpecContext: callbacks run in the context of two applications, one      *)
(* inside the other                                                         *)

MaxContextApps == 2
MaxNesting == 3

NextContext ==
  \/ CreateApp({"Comp"}, {Null}, MaxContextApps)
  \/ RunWithContext(MaxNesting)
  \/ RunWithContextEnds

SpecContext == Init /\ [][NextContext]_vars

---------------------------------------------------------------------------
(* SpecFlags: createVNode on nodes built with every patch flag up to a     *)
(* bound, and on hoisted nodes, with and without props                      *)

MaxFlagNodes == 1
MaxPatchFlag == 35

NextFlags ==
  \/ CreateElementVNode({"div", Fragment}, NoProps, NoChildren,
                        (0..MaxPatchFlag) \cup {HOISTED}, MaxFlagNodes)
  \/ CreateVNodeOfVNode(ExtraProps, NoChildren, MaxFlagNodes + 1)

SpecFlags == Init /\ [][NextFlags]_vars

---------------------------------------------------------------------------
(* SpecChildren: nodes are built with children of every form, cloned, and  *)
(* given to createVNode again with new children                             *)

MaxChildNodes == 2

FormChildren ==
  {JNull, JString("t"), JNumber(5), JFunction("slotText"),
   SlotMap(JFunction("slotText"), "none", FALSE),
   SlotMap(JUndefined, "none", FALSE)} \cup NodeLists

NextChildren ==
  \/ CreateVNode({"div", "TeleportImpl", "Comp"}, NoProps, FormChildren, {0}, MaxChildNodes)
  \/ CreateElementVNode({"div"}, NoProps, {JNull, JString("t")} \cup NodeLists, {0}, MaxChildNodes)
  \/ CreateBlock({"Comp"}, NoProps, {JNull, JString("t")}, {0}, MaxChildNodes)
  \/ CloneVNode(NoProps, {FALSE}, MaxChildNodes + 1)
  \/ CreateVNodeOfVNode(NoProps, FormChildren, MaxChildNodes + 1)

SpecChildren == Init /\ [][NextChildren]_vars

---------------------------------------------------------------------------
(* SpecAbort: render passes open blocks and build nodes; a pass may throw  *)
(* while a block is open, and other passes follow                           *)

MaxAbortNodes == 2
MaxAbortFrames == 2

NextAbort ==
  \/ Len(arrays) <= MaxAbortFrames /\ OpenBlock(BOOLEAN, MaxAbortNodes + 2)
  \/ CreateElementVNode({"div"}, NoProps, NoChildren, {TEXT}, MaxAbortNodes)
  \/ CreateElementBlock({"div"}, NoProps, NoChildren, {0}, MaxAbortNodes)
  \/ Throw

SpecAbort == Init /\ [][NextAbort]_vars

---------------------------------------------------------------------------
(* SpecMountThrows: as SpecMount, with a renderer that may throw            *)

MaxFailApps == 1
MaxFailCalls == 3

NextMountThrows ==
  \/ CreateApp({"Comp"}, {Null}, MaxFailApps)
  \/ MountApp(MaxFailCalls)
  \/ MountAppThrows(MaxFailCalls)
  \/ UnmountApp(MaxFailCalls)

SpecMountThrows == Init /\ [][NextMountThrows]_vars

---------------------------------------------------------------------------
(* Vocabulary of the properties *)

Nodes == 1..Len(vnodes)

Contains(arr, x) == \E i \in 1..Len(arr) : arr[i] = x

Occurrences(arr, x) == Cardinality({i \in 1..Len(arr) : arr[i] = x})

\* the node is in no array at all
Unregistered(n) == \A a \in 1..Len(arrays) : ~Contains(arrays[a], n)

IsBlockRoot(n) == calls[n].isBlockNode

IsClone(n) == isVNode(calls[n].arg)

IsComponent(n) ==
  vnodes[n].shapeFlag \in {FUNCTIONAL_COMPONENT, STATEFUL_COMPONENT}

\* the rule of construction-time registration
IsDynamic(n) ==
  /\ vnodes[n].patchFlag > 0 \/ IsComponent(n)
  /\ vnodes[n].patchFlag # HYDRATE_EVENTS

\* the nodes built, or closed as inner blocks, while array a was the
\* current block
BuiltIn(a) ==
  {n \in Nodes : \/ ~IsBlockRoot(n) /\ calls[n].currentBlock = a
                 \/ IsBlockRoot(n) /\ calls[n].enclosing = a}

\* <<1, ..., k>>
UpTo(k) == [i \in 1..k |-> i]

\* a step that constructs a node, and the node it constructs
Constructs == Len(vnodes') = Len(vnodes) + 1
Made == Len(vnodes')

---------------------------------------------------------------------------
(* C1 *)

\* r closes a block in which, with tracking enabled, only non-block nodes
\* were built
C1_Scenario(r) ==
  /\ IsBlockRoot(r)
  /\ calls[r].tracking
  /\ calls[r].currentBlock # NullRef
  /\ \A n \in BuiltIn(calls[r].currentBlock) :
       n < r /\ ~IsBlockRoot(n) /\ calls[n].tracking

C1_Collected(r) ==
  LET Test(n) == n \in BuiltIn(calls[r].currentBlock) /\ IsDynamic(n)
  IN arrays[vnodes[r].dynamicChildren] = SelectSeq(UpTo(r - 1), Test)

\* C1 as stated: after openBlock(), with tracking enabled, the nodes built
\* by createVNode / createElementVNode and collected in the block root's
\* dynamicChildren are exactly those with (patchFlag > 0 or a component)
\* and patchFlag # HYDRATE_EVENTS, in construction order.
C1_Original ==
  \A r \in Nodes : C1_Scenario(r) => C1_Collected(r)

\* C1, amended: the same, for blocks in which every node was built from a
\* type that is not itself a node.
C1_DynamicChildrenAreTheDynamicNodes ==
  \A r \in Nodes :
    (C1_Scenario(r) /\ \A n \in BuiltIn(calls[r].currentBlock) : ~IsClone(n))
      => C1_Collected(r)

\* children with flags TEXT, 0, CLASS: the first and the third are collected
C1_Witness ==
  \E r \in Nodes :
    /\ C1_Scenario(r)
    /\ \E a, b, c \in BuiltIn(calls[r].currentBlock) :
         /\ a < b /\ b < c
         /\ ~IsClone(a) /\ ~IsClone(b) /\ ~IsClone(c)
         /\ vnodes[a].patchFlag = TEXT /\ vnodes[a].shapeFlag = ELEMENT
         /\ vnodes[b].patchFlag = 0 /\ vnodes[b].shapeFlag = ELEMENT
         /\ vnodes[c].patchFlag = CLASS /\ vnodes[c].shapeFlag = ELEMENT
         /\ arrays[vnodes[r].dynamicChildren] = <<a, c>>

---------------------------------------------------------------------------
(* C2 *)

\* the frame below the top of the block stack, the enclosing block
Enclosing ==
  IF Len(blockStack) >= 2 THEN blockStack[Len(blockStack) - 1] ELSE NullRef

\* C2: a block closed while tracking is enabled and an enclosing block
\* with a collecting list is open is appended to that list whatever its
\* patch flag, and no node collected in the inner block is in that list.
C2_BlockRootJoinsEnclosingBlock ==
  [][(/\ Constructs
      /\ calls'[Made].isBlockNode
      /\ isBlockTreeEnabled > 0
      /\ Enclosing # NullRef)
       => /\ arrays'[Enclosing] = Append(arrays[Enclosing], Made)
          /\ currentBlock # NullRef =>
               /\ arrays'[currentBlock] = arrays[currentBlock]
               /\ \A i \in 1..Len(arrays[currentBlock]) :
                    ~Contains(arrays'[Enclosing], arrays[currentBlock][i])]_vars

\* a block root with patch flag 0 that is no component, in the enclosing
\* block's list, with a node collected inside it
C2_Witness ==
  \E r \in Nodes :
    /\ IsBlockRoot(r) /\ calls[r].tracking
    /\ vnodes[r].patchFlag = 0 /\ ~IsComponent(r)
    /\ calls[r].enclosing # NullRef
    /\ Contains(arrays[calls[r].enclosing], r)
    /\ calls[r].currentBlock # NullRef
    /\ vnodes[r].dynamicChildren = calls[r].currentBlock
    /\ Len(arrays[vnodes[r].dynamicChildren]) > 0

---------------------------------------------------------------------------
(* C3 *)

\* the innermost open block was opened with openBlock(true)
InLoopFragment ==
  Len(blockStack) >= 1 /\ blockStack[Len(blockStack)] = NullRef

\* C3 as stated: a block opened with openBlock(true) and closed gets the
\* shared empty array as its dynamicChildren.
C3_Original ==
  [][(Constructs /\ calls'[Made].isBlockNode /\ InLoopFragment)
       => vnodes'[Made].dynamicChildren = EMPTY_ARR]_vars

\* C3, amended: a block opened with openBlock(true) and closed gets the
\* shared empty array as its dynamicChildren when isBlockTreeEnabled > 0
\* and null otherwise, never a populated list (the shared array stays
\* empty); a node built while that block is the innermost one is appended
\* to no list.
C3_LoopFragmentCollectsNothing ==
  /\ [](arrays[EMPTY_ARR] = <<>>)
  /\ [][(Constructs /\ InLoopFragment)
          => IF calls'[Made].isBlockNode
             THEN vnodes'[Made].dynamicChildren =
                    IF isBlockTreeEnabled > 0 THEN EMPTY_ARR ELSE NullRef
             ELSE arrays' = arrays]_vars

\* a loop fragment closed with the empty array inside a tracked block, and
\* a dynamic node built in it that is in no list
C3_Witness ==
  \E r \in Nodes, n \in Nodes :
    /\ IsBlockRoot(r) /\ calls[r].tracking
    /\ calls[r].currentBlock = NullRef
    /\ calls[r].enclosing # NullRef
    /\ vnodes[r].dynamicChildren = EMPTY_ARR
    /\ n < r /\ ~IsBlockRoot(n) /\ calls[n].tracking
    /\ calls[n].currentBlock = NullRef
    /\ IsDynamic(n) /\ Unregistered(n)

---------------------------------------------------------------------------
(* C4 *)

\* C4: tracking is enabled exactly when every setBlockTracking(-1) has
\* been matched by a setBlockTracking(1); while isBlockTreeEnabled <= 0 no
\* step changes the elements of any array; and a setBlockTracking call
\* changes nothing but the counter.
C4_SetBlockTrackingComposes ==
  /\ []((isBlockTreeEnabled > 0) <=> (suspended <= 0))
  /\ [][/\ isBlockTreeEnabled <= 0 =>
             \A a \in 1..Len(arrays) : arrays'[a] = arrays[a]
        /\ suspended' # suspended =>
             /\ isBlockTreeEnabled' = isBlockTreeEnabled - (suspended' - suspended)
             /\ blockStack' = blockStack
             /\ currentBlock' = currentBlock
             /\ arrays' = arrays
             /\ vnodes' = vnodes]_vars

\* two nested suspensions; a dynamic node built in an open block and a
\* block closed inside another while suspended, both registered nowhere
C4_Witness ==
  /\ suspended = 2
  /\ isBlockTreeEnabled = -1
  /\ \E n \in Nodes :
       /\ ~calls[n].tracking
       /\ calls[n].currentBlock # NullRef
       /\ IsDynamic(n)
       /\ Unregistered(n)
  /\ \E r \in Nodes :
       /\ IsBlockRoot(r) /\ ~calls[r].tracking
       /\ calls[r].enclosing # NullRef
       /\ Unregistered(r)

---------------------------------------------------------------------------
(* C7 *)

---------------------------------------------------------------------------
(* C5 *)

\* createVNode(vnode, ...) with tracking active and a block open
C5_Case ==
  /\ Constructs
  /\ isVNode(calls'[Made].arg)
  /\ ~calls'[Made].isBlockNode
  /\ isBlockTreeEnabled > 0
  /\ currentBlock # NullRef

\* C5 as stated: afterwards the current block's list contains the clone
\* exactly once, does not contain the original, and is as long as before
\* whenever the original was in it.
C5_Original ==
  [][C5_Case =>
       LET original == calls'[Made].arg.vnode
           before == arrays[currentBlock]
           after == arrays'[currentBlock]
       IN /\ Occurrences(after, Made) = 1
          /\ ~Contains(after, original)
          /\ Contains(before, original) => Len(after) = Len(before)]_vars

\* C5, amended: the clone of a component that is in the current block's
\* list takes the original's slot (the list then contains the clone
\* exactly once, not the original, and has the same length and the same
\* other entries); the clone of a component that is not in the list is
\* not entered in it; the clone of any other node is appended, and the
\* original stays where it was.  No other array changes.
C5_CloneReplacesComponentSlot ==
  [][C5_Case =>
       LET original == calls'[Made].arg.vnode
           before == arrays[currentBlock]
           after == arrays'[currentBlock]
       IN /\ IF vnodes'[Made].shapeFlag \in
                  {STATEFUL_COMPONENT, FUNCTIONAL_COMPONENT}
             THEN IF Contains(before, original)
                  THEN /\ Occurrences(after, Made) = 1
                       /\ ~Contains(after, original)
                       /\ Len(after) = Len(before)
                       /\ \A i \in 1..Len(before) :
                            after[i] = IF before[i] = original
                                       THEN Made ELSE before[i]
                  ELSE after = before
             ELSE after = Append(before, Made)
          /\ \A a \in 1..Len(arrays) :
               a # currentBlock => arrays'[a] = arrays[a]]_vars

\* a component in the middle of the list replaced by its clone
C5_Witness ==
  \E c \in Nodes, a \in 1..Len(arrays) :
    /\ IsClone(c) /\ ~IsBlockRoot(c) /\ IsComponent(c)
    /\ calls[c].tracking /\ calls[c].currentBlock = a
    /\ Len(arrays[a]) = 2
    /\ arrays[a][1] = c
    /\ arrays[a][2] > calls[c].arg.vnode /\ arrays[a][2] < c

---------------------------------------------------------------------------
(* C6 *)

\* C6 as stated: the clone createVNode returns for an existing node has a
\* positive patch flag that includes FULL_PROPS.
C6_Original ==
  \A c \in Nodes :
    IsClone(c) =>
      /\ vnodes[c].patchFlag > 0
      /\ BitAnd(vnodes[c].patchFlag, FULL_PROPS) = FULL_PROPS

\* C6, amended: the clone createVNode returns for an existing node has the
\* BAIL bits (-2) in its patch flag, with or without props: the flag is
\* negative, never a positive bit set.  It is -1 when the original's flag
\* is odd (TEXT set, or hoisted), except that a hoisted non-Fragment
\* original cloned with props gives -2; it is -2 otherwise.  As a
\* two's-complement bit set it includes FULL_PROPS.
C6_CloneBailsOut ==
  \A c \in Nodes :
    IsClone(c) =>
      LET original == vnodes[calls[c].arg.vnode]
          hoistedWithProps ==
            /\ calls[c].props # Null
            /\ original.type # Fragment
            /\ original.patchFlag = HOISTED
      IN /\ vnodes[c].patchFlag < 0
         /\ vnodes[c].patchFlag =
              IF original.patchFlag % 2 = 1 /\ ~hoistedWithProps
              THEN -1 ELSE -2
         /\ BitAnd(vnodes[c].patchFlag, FULL_PROPS) = FULL_PROPS

\* clones with props of a TEXT node and of a hoisted node
C6_Witness ==
  \E c \in Nodes, d \in Nodes :
    /\ IsClone(c) /\ calls[c].props # Null
    /\ vnodes[calls[c].arg.vnode].patchFlag = TEXT
    /\ ~IsClone(calls[c].arg.vnode)
    /\ IsClone(d) /\ calls[d].props = Null
    /\ vnodes[calls[d].arg.vnode].patchFlag = TEXT

---------------------------------------------------------------------------
(* C8 *)

HasNaNKey(n) ==
  /\ vnodes[n].props # NullRef
  /\ "key" \in DOMAIN objects[vnodes[n].props]
  /\ objects[vnodes[n].props]["key"] = "NaN"

\* C8: a node built with key NaN is built, with that key, and
\* isSameVNodeType is false whenever either node's key is NaN, also of a
\* node and itself.
C8_NaNKeyNeverSame ==
  /\ \A n \in Nodes : HasNaNKey(n) => vnodes[n].key = "NaN"
  /\ compared # <<>> =>
       ((HasNaNKey(compared[1].n1) \/ HasNaNKey(compared[1].n2))
          => compared[1].value = FALSE)

\* a node with key NaN compared with itself, and not because of HMR
C8_Witness ==
  /\ compared # <<>>
  /\ compared[1].n1 = compared[1].n2
  /\ HasNaNKey(compared[1].n1)
  /\ ~compared[1].hmrDirty
  /\ compared[1].value = FALSE

---------------------------------------------------------------------------
(* C9 and C10 *)

KindBits(n) ==
  BitAnd(vnodes[n].shapeFlag,
         ELEMENT + FUNCTIONAL_COMPONENT + STATEFUL_COMPONENT + TELEPORT
           + SUSPENSE)

InvalidTypes ==
  {"null", "undefined", "", "0", "false", NULL_DYNAMIC_COMPONENT}

\* C9: createVNode with an invalid or falsy type returns a Comment node
\* with no kind bit, and the node is registered in the current block by
\* the rule of every other node: iff tracking is enabled, a block is open
\* and its patch flag is positive and not HYDRATE_EVENTS alone.
C9_InvalidTypeBecomesComment ==
  \A n \in Nodes :
    (~IsClone(n) /\ calls[n].arg.val \in InvalidTypes) =>
      /\ vnodes[n].type = Comment
      /\ KindBits(n) = 0
      /\ ~IsBlockRoot(n) =>
           \A a \in 1..Len(arrays) :
             Contains(arrays[a], n) <=>
               /\ a = calls[n].currentBlock
               /\ calls[n].tracking
               /\ vnodes[n].patchFlag > 0
               /\ vnodes[n].patchFlag # HYDRATE_EVENTS

\* a node built from null with the TEXT flag, collected by the open block,
\* and one built from the null-dynamic-component marker without a flag
C9_Witness ==
  \E n \in Nodes, m \in Nodes :
    /\ calls[n].arg = TypeArg("null")
    /\ vnodes[n].patchFlag = TEXT
    /\ calls[n].currentBlock # NullRef
    /\ Contains(arrays[calls[n].currentBlock], n)
    /\ calls[m].arg = TypeArg(NULL_DYNAMIC_COMPONENT)
    /\ vnodes[m].type = Comment
    /\ Unregistered(m)

\* the kind the rules of C10 give each type
C10_Kind(v) ==
  CASE v \in {"div", ""} -> ELEMENT
    [] v = "SuspenseImpl" -> SUSPENSE
    [] v = "TeleportImpl" -> TELEPORT
    [] v \in {"Comp", "ClassOpts", "ClassComp", "vnode"} -> STATEFUL_COMPONENT
    [] v = "Fn" -> FUNCTIONAL_COMPONENT
    [] v \in {Fragment, Text, Comment, Static} -> 0

C10_Ruled ==
  {"div", "", "SuspenseImpl", "TeleportImpl", "Comp", "ClassOpts",
   "ClassComp", "vnode", "Fn", Fragment, Text, Comment, Static}

\* C10 as stated: the kind bit follows from the type alone; every string
\* gives ELEMENT and every object that is not Suspense or Teleport gives
\* STATEFUL_COMPONENT.
C10_Original ==
  \A n \in Nodes :
    calls[n].arg.val \in C10_Ruled => KindBits(n) = C10_Kind(calls[n].arg.val)

\* C10, amended: for a type that is neither invalid (falsy or the
\* null-dynamic-component marker: C9) nor an existing node, the kind bit
\* follows from the type alone: non-empty string -> ELEMENT, Suspense ->
\* SUSPENSE, Teleport -> TELEPORT, other object -> STATEFUL_COMPONENT,
\* function -> FUNCTIONAL_COMPONENT, Text/Comment/Fragment/Static -> none;
\* a class-style wrapper is classified as its options object, which
\* becomes the node's type.  The clone of an existing node keeps that
\* node's shape flag.
C10_KindFromType ==
  \A n \in Nodes :
    IF IsClone(n)
    THEN vnodes[n].shapeFlag = vnodes[calls[n].arg.vnode].shapeFlag
    ELSE (calls[n].arg.val \in C10_Ruled \ InvalidTypes) =>
           /\ vnodes[n].shapeFlag = C10_Kind(calls[n].arg.val)
           /\ vnodes[n].type =
                IF calls[n].arg.val = "ClassComp" THEN "ClassOpts"
                ELSE calls[n].arg.val

\* a class-style component and a Teleport, classified
C10_Witness ==
  \E n \in Nodes, m \in Nodes :
    /\ calls[n].arg = TypeArg("ClassComp")
    /\ vnodes[n].shapeFlag = STATEFUL_COMPONENT
    /\ calls[m].arg = TypeArg("TeleportImpl")
    /\ vnodes[m].shapeFlag = TELEPORT

---------------------------------------------------------------------------
(* C11 *)

ChildrenBits(n) ==
  BitAnd(vnodes[n].shapeFlag,
         TEXT_CHILDREN + ARRAY_CHILDREN + SLOTS_CHILDREN)

OnFastPath(n) == calls[n].op \in {"createElementVNode", "createElementBlock"}

\* C11 as stated: on the fast path a string gives TEXT_CHILDREN, an array
\* ARRAY_CHILDREN and every other children value no children bit.
C11_Original ==
  \A n \in Nodes :
    OnFastPath(n) =>
      ChildrenBits(n) =
        CASE typeof(calls[n].children) = "string" -> TEXT_CHILDREN
          [] typeof(calls[n].children) = "literal" -> ARRAY_CHILDREN
          [] OTHER -> 0

\* C11, amended: on the fast path the children are only tested for
\* truthiness and for being a string.  A non-empty string gives
\* TEXT_CHILDREN; an array, and every other truthy value (a non-zero
\* number, true, an object, a function), gives ARRAY_CHILDREN; the falsy
\* values (null, undefined, the empty string, 0, false) give no children
\* bit.  SLOTS_CHILDREN is never set and the children are stored as given.
C11_FastPathChildrenBits ==
  \A n \in Nodes :
    OnFastPath(n) =>
      LET given == calls[n].children
      IN /\ ChildrenBits(n) =
              CASE given \in {JNull, JUndefined, JString(""), JNumber(0),
                              JBoolean(FALSE)} -> 0
                [] typeof(given) = "string" -> TEXT_CHILDREN
                [] OTHER -> ARRAY_CHILDREN
         /\ IF typeof(given) = "literal"
            THEN /\ typeof(vnodes[n].children) = "array"
                 /\ arrays[vnodes[n].children[2]] = given[2]
            ELSE vnodes[n].children = given

\* a text child, an array child and a number child, each with its bit
C11_Witness ==
  \E n \in Nodes, m \in Nodes :
    /\ OnFastPath(n) /\ calls[n].children = JNumber(5)
    /\ ChildrenBits(n) = ARRAY_CHILDREN
    /\ OnFastPath(m) /\ calls[m].children = JString("t")
    /\ ChildrenBits(m) = TEXT_CHILDREN

---------------------------------------------------------------------------
(* C12 *)

IsCloneVNode(c) == calls[c].op = "cloneVNode"

\* the node a clone was made of
Original(c) == vnodes[calls[c].arg.vnode]

WithExtraProps(c) == calls[c].props # Null

\* C12: the patch flag of a clone made by cloneVNode is the original's when
\* no extra props are given or the node is a Fragment; with extra props on
\* another node it is exactly FULL_PROPS when the original is hoisted (-1)
\* and the original's flag with FULL_PROPS added otherwise.
C12_ClonePatchFlag ==
  \A c \in Nodes :
    IsCloneVNode(c) =>
      vnodes[c].patchFlag =
        IF ~WithExtraProps(c) \/ Original(c).type = Fragment
        THEN Original(c).patchFlag
        ELSE IF Original(c).patchFlag = HOISTED
        THEN FULL_PROPS
        ELSE BitOr(Original(c).patchFlag, FULL_PROPS)

\* a hoisted element has been cloned with extra props, and the clone has
\* FULL_PROPS alone
C12_Witness ==
  \E c \in Nodes :
    /\ IsCloneVNode(c) /\ WithExtraProps(c)
    /\ Original(c).type = "div" /\ Original(c).patchFlag = HOISTED
    /\ vnodes[c].patchFlag = FULL_PROPS

---------------------------------------------------------------------------
(* C13 *)

\* the ref the extra props carry, and the binding made of it
IncomingRef(c) ==
  IF WithExtraProps(c) THEN Get(calls[c].props[1], "ref") ELSE JUndefined

IncomingBinding(c) == normalizeRef(St, calls[c].props[1])

\* the bindings of a ref field, in order
Bindings(ref) == IF typeof(ref) = "reflist" THEN ref[2] ELSE <<ref>>

\* the ref field the rule gives a clone whose extra props are taken to
\* carry a ref exactly when carries holds
RefByRule(c, carries) ==
  IF ~carries THEN Original(c).ref
  ELSE IF calls[c].mergeRef /\ Original(c).ref # JNull
  THEN RefList(Bindings(Original(c).ref) \o <<IncomingBinding(c)>>)
  ELSE IncomingBinding(c)

\* C13 as stated: extra props without a ref keep the original's ref; a ref
\* they carry (any value other than null and undefined, as where a node is
\* constructed) is appended to the original's bindings when merging is
\* asked for and the original has a ref, and replaces them otherwise.
C13_Original ==
  \A c \in Nodes :
    IsCloneVNode(c) =>
      vnodes[c].ref =
        RefByRule(c, typeof(IncomingRef(c)) \notin {"null", "undefined"})

\* C13, as the code has it: the rule holds with "carry a ref" read as
\* "carry a truthy ref"; the empty string and 0 count as no ref at all.
C13_CloneRef ==
  \A c \in Nodes :
    IsCloneVNode(c) => vnodes[c].ref = RefByRule(c, ToBoolean(IncomingRef(c)))

\* a node with a ref has been cloned with another ref and mergeRef, and
\* the clone has the two bindings in that order
C13_Witness ==
  \E c \in Nodes :
    /\ IsCloneVNode(c) /\ calls[c].mergeRef
    /\ Original(c).ref # JNull
    /\ ToBoolean(IncomingRef(c))
    /\ vnodes[c].ref = RefList(<<Original(c).ref, IncomingBinding(c)>>)

---------------------------------------------------------------------------
(* C14 *)

\* what a node's mutable containers hold
PropsOf(n) ==
  IF vnodes[n].props = NullRef THEN EmptyObject ELSE objects[vnodes[n].props]

ChildrenOf(n) ==
  IF typeof(vnodes[n].children) = "array"
  THEN arrays[vnodes[n].children[2]] ELSE <<>>

DynamicChildrenOf(n) ==
  IF vnodes[n].dynamicChildren = NullRef THEN <<>>
  ELSE arrays[vnodes[n].dynamicChildren]

Containers(n) == <<PropsOf(n), ChildrenOf(n), DynamicChildrenOf(n)>>

\* the step is a call of cloneVNode; the clone is the last node after it
ClonedNow ==
  /\ Len(vnodes') > Len(vnodes)
  /\ calls'[Len(vnodes')].op = "cloneVNode"

\* the step leaves every node constructed before, and what its containers
\* hold, as they were
OriginalsUntouched ==
  \A n \in Nodes : vnodes'[n] = vnodes[n] /\ Containers(n)' = Containers(n)

\* the step is a write into a container of the last node, a clone made by
\* cloneVNode
CloneWrittenNow ==
  /\ Len(vnodes') = Len(vnodes)
  /\ Len(vnodes) > 0
  /\ IsCloneVNode(Len(vnodes))
  /\ Containers(Len(vnodes))' # Containers(Len(vnodes))

\* C14 as stated: cloneVNode returns a new node of the same type and leaves
\* the original as it was, and a later change to the clone's props, children
\* list or dynamicChildren list changes nothing the original's hold.
C14_Original ==
  [][/\ ClonedNow =>
          /\ vnodes'[Len(vnodes')].type =
               vnodes[calls'[Len(vnodes')].arg.vnode].type
          /\ OriginalsUntouched
     /\ CloneWrittenNow =>
          LET o == calls[Len(vnodes)].arg.vnode
          IN Containers(o)' = Containers(o)]_vars

\* the node constructed last
Last == Len(vnodes)

\* the step's clone, the last node after it, is made of node o
SharesWithOriginal(o) ==
  /\ vnodes[Last]'.type = vnodes[o].type
  /\ vnodes[Last]'.dynamicChildren = vnodes[o].dynamicChildren
  /\ IF calls[Last]'.props = Null
     THEN vnodes[Last]'.props = vnodes[o].props
     ELSE vnodes[Last]'.props > Len(objects)
  /\ IF DEV /\ vnodes[o].patchFlag = HOISTED
            /\ typeof(vnodes[o].children) = "array"
     THEN /\ typeof(vnodes[Last]'.children) = "array"
          /\ vnodes[Last]'.children[2] > Len(arrays)
          /\ Len(ChildrenOf(Last)') = Len(ChildrenOf(o))
          /\ \A i \in 1..Len(ChildrenOf(o)) :
               /\ ChildrenOf(Last)'[i] > Len(vnodes)
               /\ vnodes'[ChildrenOf(Last)'[i]].type =
                    vnodes[ChildrenOf(o)[i]].type
     ELSE vnodes[Last]'.children = vnodes[o].children

\* C14, as the code has it: cloneVNode returns a new node of the same type
\* and leaves the original as it was.  The clone has the original's
\* dynamicChildren list itself, the original's props object itself unless
\* extra props are given (then a new object), and the original's children
\* itself, except that the clone of a hoisted node with a list of children
\* gets a new list of deep clones.  A later write into a container the
\* clone has in common with the original is a write into the original's.
C14_CloneShares ==
  [][/\ ClonedNow =>
          /\ SharesWithOriginal(calls'[Len(vnodes')].arg.vnode)
          /\ OriginalsUntouched
     /\ CloneWrittenNow =>
          LET c == Len(vnodes)
              o == calls[c].arg.vnode
          IN /\ vnodes[c].props = vnodes[o].props
                  => PropsOf(o)' = PropsOf(c)'
             /\ vnodes[c].children = vnodes[o].children
                  => ChildrenOf(o)' = ChildrenOf(c)'
             /\ vnodes[c].dynamicChildren = vnodes[o].dynamicChildren
                  => DynamicChildrenOf(o)' = DynamicChildrenOf(c)']_vars

\* a node made with props { id: "x" } and an empty list of children has
\* been cloned without extra props; the clone is the last node, it has the
\* original's props object and list, and both have been written into
C14_Witness ==
  \E o \in Nodes :
    LET c == Len(vnodes)
    IN /\ IsCloneVNode(c) /\ calls[c].arg.vnode = o
       /\ ~WithExtraProps(c)
       /\ calls[o].op = "createElementVNode"
       /\ calls[o].props = Some("id" :> "x")
       /\ calls[o].children = ArrayOf(<<>>)
       /\ vnodes[c].props = vnodes[o].props
       /\ vnodes[c].children = vnodes[o].children
       /\ PropsOf(o)["id"] = "z"
       /\ Len(ChildrenOf(o)) = 1

---------------------------------------------------------------------------
(* C15 *)

IsHoisted(n) == vnodes[n].patchFlag = HOISTED

IsMounted(n) == vnodes[n].el # NullRef

\* the child values of this state that have never been mounted
NeverMountedInputs ==
  {JNull, JUndefined, JBoolean(TRUE), JBoolean(FALSE), JNumber(0),
   JString("t")}
    \cup {JArray(a) : a \in 1..Len(arrays)}
    \cup {JVNode(n) : n \in {m \in Nodes : ~IsMounted(m)}}

\* normalizeVNode(normalizeVNode(c)) is the instance normalizeVNode(c) is
Idempotent(c) ==
  The({normalizeVNode(s1, JVNode(s1.returned)).returned = s1.returned
         : s1 \in {normalizeVNode(St, c)}})

\* normalizeVNode returns a never-mounted node that is not hoisted as it is
UnmountedReturnedAsIs ==
  \A n \in Nodes :
    ~IsMounted(n) /\ ~IsHoisted(n)
      => normalizeVNode(St, JVNode(n)).returned = n

\* C15 as stated: normalizeVNode returns a node without el that is not
\* hoisted as the same instance, and normalizeVNode(normalizeVNode(c)) is
\* the same instance as normalizeVNode(c) for every never-mounted input c.
C15_Original ==
  /\ UnmountedReturnedAsIs
  /\ \A c \in NeverMountedInputs : Idempotent(c)

\* C15, as the code has it: the first half as stated; the second for every
\* never-mounted input except a hoisted node without a memo, which is
\* cloned each time, the clone being hoisted too.
C15_NormalizeIdempotent ==
  /\ UnmountedReturnedAsIs
  /\ \A c \in NeverMountedInputs :
       Idempotent(c)
         <=> ~(typeof(c) = "vnode" /\ IsHoisted(c[2]) /\ ~vnodes[c[2]].memo)

\* the last call normalized a node that is not hoisted and is still
\* unmounted, and returned it
C15_Witness ==
  /\ lastCall # <<>>
  /\ lastCall[1].op = "normalizeVNode"
  /\ typeof(lastCall[1].arg) = "vnode"
  /\ lastCall[1].value = lastCall[1].arg[2]
  /\ ~IsMounted(lastCall[1].value)
  /\ ~IsHoisted(lastCall[1].value)
  /\ \E n \in Nodes : IsHoisted(n) /\ ~IsMounted(n) /\ ~vnodes[n].memo

---------------------------------------------------------------------------
(* C16 *)

\* in state s the nodes c and n have equal type, key, props and children:
\* the same props object, and the same children or lists of children of
\* the same length and types
EqualNodes(s, c, n) ==
  /\ s.vnodes[c].type = s.vnodes[n].type
  /\ s.vnodes[c].key = s.vnodes[n].key
  /\ s.vnodes[c].props = s.vnodes[n].props
  /\ \/ s.vnodes[c].children = s.vnodes[n].children
     \/ /\ typeof(s.vnodes[c].children) = "array"
        /\ typeof(s.vnodes[n].children) = "array"
        /\ LET l == s.arrays[s.vnodes[c].children[2]]
               r == s.arrays[s.vnodes[n].children[2]]
           IN /\ Len(l) = Len(r)
              /\ \A i \in 1..Len(l) :
                   s.vnodes[l[i]].type = s.vnodes[r[i]].type

\* normalizeVNode(n) is a new node equal to n
NormalizedToCopy(n) ==
  The({/\ s1.returned > Len(vnodes)
       /\ EqualNodes(s1, s1.returned, n)
       /\ s1.vnodes[n] = vnodes[n]
         : s1 \in {normalizeVNode(St, JVNode(n))}})

\* C16 as stated: normalizeVNode of a mounted node is always a distinct
\* node with equal type, key, props and children, hoisted or not, with a
\* memo or not.
C16_Original ==
  \A n \in Nodes : IsMounted(n) => NormalizedToCopy(n)

\* C16, as the code has it: that holds of every mounted node without a
\* memo; a node that carries a memo is returned as it is, mounted or not.
C16_MountedIsCopied ==
  \A n \in Nodes :
    /\ IsMounted(n) /\ ~vnodes[n].memo => NormalizedToCopy(n)
    /\ vnodes[n].memo => normalizeVNode(St, JVNode(n)).returned = n

\* a call has made a copy of a mounted node (the copy has the original's
\* el), and the last call returned the mounted node with a memo it was
\* given
C16_Witness ==
  /\ \E c \in Nodes :
       /\ calls[c].op = "normalizeVNode"
       /\ isVNode(calls[c].arg)
       /\ vnodes[c].el = calls[c].arg.vnode
  /\ lastCall # <<>>
  /\ lastCall[1].op = "normalizeVNode"
  /\ typeof(lastCall[1].arg) = "vnode"
  /\ lastCall[1].value = lastCall[1].arg[2]
  /\ IsMounted(lastCall[1].value)
  /\ vnodes[lastCall[1].value].memo

---------------------------------------------------------------------------
(* C17 *)

\* the step is a call of normalizeVNode on a value that is not a node
ValueNormalizedNow ==
  /\ Len(vnodes') > Len(vnodes)
  /\ calls[Last]'.op = "normalizeVNode"
  /\ typeof(calls[Last]'.children) # "vnode"

\* the string a number or string of the inputs is coerced to
Coerced(child) ==
  CASE child = JNumber(0) -> "0"
    [] child = JNumber(12) -> "12"
    [] child = JString("") -> ""
    [] child = JString("t") -> "t"

\* the node made last is the one normalizeVNode makes of the child value
NormalizedValue(child) ==
  /\ vnodes[Last].el = NullRef
  /\ vnodes[Last].props = NullRef
  /\ CASE typeof(child) \in {"null", "undefined", "boolean"} ->
            /\ vnodes[Last].type = Comment
            /\ vnodes[Last].children = JNull
            /\ ChildrenBits(Last) = 0
       [] typeof(child) = "array" ->
            /\ vnodes[Last].type = Fragment
            /\ typeof(vnodes[Last].children) = "array"
            /\ vnodes[Last].children[2] # child[2]
            /\ ChildrenOf(Last) = arrays[child[2]]
            /\ ChildrenBits(Last) = ARRAY_CHILDREN
       [] OTHER ->
            /\ vnodes[Last].type = Text
            /\ vnodes[Last].children = JString(Coerced(child))
            /\ ChildrenBits(Last) = TEXT_CHILDREN

\* the step writes into the children of the last node, a Fragment that
\* normalizeVNode made of an array
FragmentWrittenNow ==
  /\ Len(vnodes') = Len(vnodes)
  /\ Len(vnodes) > 0
  /\ calls[Last].op = "normalizeVNode"
  /\ typeof(calls[Last].children) = "array"
  /\ ChildrenOf(Last)' # ChildrenOf(Last)

\* C17: normalizeVNode makes one new node of a value that is not a node:
\* an empty Comment of null, undefined and booleans; a Fragment of an
\* array, its children a new list with the array's elements, so that a
\* later change to one list is no change to the other; a Text of a number
\* or string, its children the value as a string.
C17_NormalizeValues ==
  [][/\ ValueNormalizedNow =>
          /\ Len(vnodes') = Len(vnodes) + 1
          /\ \A n \in Nodes : vnodes'[n] = vnodes[n]
          /\ NormalizedValue(calls[Last].children)'
     /\ FragmentWrittenNow =>
          arrays'[calls[Last].children[2]] = arrays[calls[Last].children[2]]
    ]_vars

\* a number has become the Text "12", and an empty array a Fragment whose
\* list has since got an element while the array has none
C17_Witness ==
  /\ \E n \in Nodes :
       /\ calls[n].op = "normalizeVNode"
       /\ calls[n].children = JNumber(12)
       /\ vnodes[n].type = Text
       /\ vnodes[n].children = JString("12")
  /\ \E n \in Nodes :
       /\ calls[n].op = "normalizeVNode"
       /\ typeof(calls[n].children) = "array"
       /\ vnodes[n].type = Fragment
       /\ Len(ChildrenOf(n)) = 1
       /\ arrays[calls[n].children[2]] = <<>>

---------------------------------------------------------------------------
(* C18 *)

HasBit(n, bit) == BitAnd(vnodes[n].shapeFlag, bit) # 0

IsElementOrTeleport(n) == HasBit(n, ELEMENT) \/ HasBit(n, TELEPORT)

\* the children given to the call that made node n
GivenChildren(n) == calls[n].children

GivenSlotMap(n) ==
  calls[n].op = "createVNode" /\ typeof(GivenChildren(n)) = "object"

GivenFunction(n) ==
  calls[n].op = "createVNode" /\ typeof(GivenChildren(n)) = "function"

\* children and children bits of node n before normalizeChildren: for a
\* clone the original's, for a new node the children given and no bit
ChildrenBefore(n) ==
  IF IsClone(n) THEN Original(n).children ELSE GivenChildren(n)

BitsBefore(n) ==
  IF IsClone(n) THEN ChildrenBits(calls[n].arg.vnode) ELSE 0

\* the bit that goes with plain children
PlainChildren(n) ==
  CASE typeof(vnodes[n].children) = "null" -> TRUE
    [] typeof(vnodes[n].children) = "string" -> HasBit(n, TEXT_CHILDREN)
    [] typeof(vnodes[n].children) = "array" -> HasBit(n, ARRAY_CHILDREN)
    [] OTHER -> FALSE

\* slot children: a slot map and the SLOTS_CHILDREN bit
SlotChildrenOn(n) ==
  typeof(vnodes[n].children) = "object" /\ HasBit(n, SLOTS_CHILDREN)

\* C18 as stated: an Element or Teleport node given a slot map ends with
\* plain children (null, text or array with the matching bit) and without
\* SLOTS_CHILDREN; a node of another kind given a slot map or a function
\* ends with slot children.
C18_Original ==
  \A n \in Nodes :
    /\ GivenSlotMap(n) /\ IsElementOrTeleport(n)
         => PlainChildren(n) /\ ~HasBit(n, SLOTS_CHILDREN)
    /\ (GivenSlotMap(n) \/ GivenFunction(n)) /\ ~IsElementOrTeleport(n)
         => SlotChildrenOn(n)

\* what the default slot of the slot map given to node n returns
DefaultSlotValue(n) == slotCall(St, GivenChildren(n)[2].default[2]).value

\* nothing has been done to the children of node n
ChildrenLeftAlone(n) ==
  vnodes[n].children = ChildrenBefore(n) /\ ChildrenBits(n) = BitsBefore(n)

\* C18, as the code has it: an Element or Teleport node given a slot map
\* with a default slot gets the normalized value of the call of the slot:
\* null, text (for a Teleport a list of one Text node) or an array with
\* the matching bit when the slot returns nothing, a string or an array,
\* slot children with SLOTS_CHILDREN when it returns a function, and what
\* it had before when it returns an object.  Given a slot map without a
\* default slot the node keeps what it had before: a new node the slot map
\* itself as children, with no children bit.  A node of another kind given
\* a slot map or a function ends with slot children.
C18_SlotMapOnElement ==
  \A n \in Nodes :
    /\ GivenSlotMap(n) /\ IsElementOrTeleport(n) =>
         IF ~ToBoolean(GivenChildren(n)[2].default)
         THEN ChildrenLeftAlone(n)
         ELSE CASE typeof(DefaultSlotValue(n)) \in {"null", "undefined"} ->
                     /\ vnodes[n].children = JNull
                     /\ ChildrenBits(n) = BitsBefore(n)
                [] typeof(DefaultSlotValue(n)) = "string" ->
                     IF HasBit(n, TELEPORT)
                     THEN /\ typeof(vnodes[n].children) = "array"
                          /\ Len(ChildrenOf(n)) = 1
                          /\ vnodes[ChildrenOf(n)[1]].type = Text
                          /\ vnodes[ChildrenOf(n)[1]].children =
                               DefaultSlotValue(n)
                          /\ HasBit(n, ARRAY_CHILDREN)
                     ELSE /\ vnodes[n].children = DefaultSlotValue(n)
                          /\ HasBit(n, TEXT_CHILDREN)
                [] typeof(DefaultSlotValue(n)) = "array" ->
                     /\ typeof(vnodes[n].children) = "array"
                     /\ HasBit(n, ARRAY_CHILDREN)
                [] typeof(DefaultSlotValue(n)) = "function" ->
                     /\ SlotChildrenOn(n)
                     /\ vnodes[n].children[2].default = DefaultSlotValue(n)
                [] typeof(DefaultSlotValue(n)) = "object" ->
                     ChildrenLeftAlone(n)
    /\ (GivenSlotMap(n) \/ GivenFunction(n)) /\ ~IsElementOrTeleport(n)
         => SlotChildrenOn(n)

\* an element has been given a slot map without a default slot and has it
\* for children, without a children bit; another has been given one whose
\* default slot returns text and has the text
C18_Witness ==
  /\ \E n \in Nodes :
       /\ GivenSlotMap(n) /\ vnodes[n].type = "div" /\ ~IsClone(n)
       /\ ~ToBoolean(GivenChildren(n)[2].default)
       /\ vnodes[n].children = GivenChildren(n)
       /\ ChildrenBits(n) = 0
  /\ \E n \in Nodes :
       /\ GivenSlotMap(n) /\ vnodes[n].type = "div"
       /\ vnodes[n].children = JString("t")
       /\ HasBit(n, TEXT_CHILDREN)

---------------------------------------------------------------------------
(* C19 *)

MergedNow == lastCall # <<>> /\ lastCall[1].op = "mergeProps"
MergeArgs == lastCall[1].arg
Merged == lastCall[1].value

\* the words of a string: what is between its spaces
RECURSIVE Words(_)
Words(chars) ==
  IF chars = <<>> THEN <<>>
  ELSE IF Head(chars) = " " THEN Words(Tail(chars))
  ELSE IF firstIndex(chars, " ", 1) = 0 THEN <<chars>>
  ELSE <<SubSeq(chars, 1, firstIndex(chars, " ", 1) - 1)>>
         \o Words(SubSeq(chars, firstIndex(chars, " ", 1), Len(chars)))

\* the class names a class value stands for: the words of a string, the
\* names of the items of an array, the names an object maps to true
RECURSIVE ClassNames(_)
RECURSIVE ClassNamesOfItems(_, _)
ClassNamesOfItems(items, i) ==
  IF i > Len(items) THEN <<>>
  ELSE ClassNames(items[i]) \o ClassNamesOfItems(items, i + 1)

ClassNames(v) ==
  CASE typeof(v) = "string" -> Words(v[2])
    [] typeof(v) = "list" -> ClassNamesOfItems(v[3], 1)
    [] typeof(v) = "map" ->
         ClassNamesOfItems([i \in 1..Len(v[3]) |->
                              IF v[3][i][2] = JBoolean(TRUE)
                              THEN JText(v[3][i][1]) ELSE JNull], 1)
    [] OTHER -> <<>>

\* the class names of all arguments, in argument order
RECURSIVE ClassNamesOfArgs(_, _)
ClassNamesOfArgs(args, i) ==
  IF i > Len(args) THEN <<>>
  ELSE ClassNames(Get(args[i], "class")) \o ClassNamesOfArgs(args, i + 1)

\* a list without the later occurrences of what it lists
RECURSIVE FirstOccurrences(_)
FirstOccurrences(seq) ==
  IF seq = <<>> THEN <<>>
  ELSE LET init == FirstOccurrences(SubSeq(seq, 1, Len(seq) - 1))
       IN  IF includes(init, seq[Len(seq)]) THEN init
           ELSE Append(init, seq[Len(seq)])

\* the last argument that has the key
LastWith(args, key) ==
  CHOOSE i \in 1..Len(args) :
    key \in DOMAIN args[i] /\ \A j \in (i + 1)..Len(args) : key \notin DOMAIN args[j]

PlainKeys(args) ==
  {key \in UNION {DOMAIN args[i] : i \in 1..Len(args)} :
     key \notin {"class", "style", ""} /\ ~isOn(key)}

\* {class: "a"} then {class: "b"} yields "a b"
ClassesJoined ==
  MergeArgs = <<"class" :> JText(<<"a">>), "class" :> JText(<<"b">>)>>
    => Merged["class"] = JText(<<"a", " ", "b">>)

\* the result lists the classes of all arguments in argument order
ClassesListed ==
  FirstOccurrences(ClassNames(Get(Merged, "class"))) =
    FirstOccurrences(ClassNamesOfArgs(MergeArgs, 1))

\* every other key takes the value of the last argument that has it, and
\* the empty key does not appear
LastWriteWins ==
  /\ \A key \in PlainKeys(MergeArgs) :
       /\ key \in DOMAIN Merged
       /\ Merged[key] = MergeArgs[LastWith(MergeArgs, key)][key]
  /\ \A key \in DOMAIN Merged \ {"class", "style"} :
       ~isOn(key) => key \in PlainKeys(MergeArgs)
  /\ "" \notin DOMAIN Merged

\* the two arguments carry the same string for class
SameStringTwice ==
  /\ Len(MergeArgs) = 2
  /\ "class" \in DOMAIN MergeArgs[1] /\ "class" \in DOMAIN MergeArgs[2]
  /\ typeof(MergeArgs[1]["class"]) = "string"
  /\ MergeArgs[1]["class"] = MergeArgs[2]["class"]

NotDuplicated ==
  ClassNames(Merged["class"]) = ClassNames(MergeArgs[1]["class"])

\* C19 as stated: mergeProps folds left to right; {class: "a"} then
\* {class: "b"} yields "a b"; the result lists the classes of all arguments
\* in argument order; a string class merged with an identical string class
\* is not duplicated; every key other than class, style and handlers takes
\* the value of the last argument that has it; the empty key never appears.
C19_Original ==
  MergedNow =>
    /\ ClassesJoined
    /\ ClassesListed
    /\ SameStringTwice => NotDuplicated
    /\ LastWriteWins

\* C19 for the strings on which the code does what is stated: the
\* identical string is not duplicated when it has no space at either end
\* (the class kept in the result is trimmed, and the comparison is made
\* with the string as given)
C19_MergeClass ==
  MergedNow =>
    /\ ClassesJoined
    /\ ClassesListed
    /\ SameStringTwice /\ trim(MergeArgs[1]["class"][2]) = MergeArgs[1]["class"][2]
         => NotDuplicated
    /\ LastWriteWins

\* three arguments with classes "a" and "b", two values for id and an
\* empty key have been merged
C19_Witness ==
  /\ MergedNow
  /\ Len(MergeArgs) = 3
  /\ Get(MergeArgs[1], "class") = JText(<<"a">>)
  /\ Get(MergeArgs[1], "id") = "x"
  /\ Get(MergeArgs[2], "class") = JText(<<"b">>)
  /\ "" \in DOMAIN MergeArgs[3] /\ Get(MergeArgs[3], "id") = "z"
  /\ Merged["class"] = JText(<<"a", " ", "b">>)
  /\ Merged["id"] = "z"
  /\ "" \notin DOMAIN Merged

---------------------------------------------------------------------------
(* C20 *)

\* the handlers the result holds under a key: the items of an array, or
\* the one value
HandlersOf(key) == Spread(Merged[key])

NoHandlerTwice ==
  \A key \in DOMAIN Merged :
    isOn(key) =>
      \A i, j \in 1..Len(HandlersOf(key)) :
        HandlersOf(key)[i] = HandlersOf(key)[j] => i = j

\* two different handlers for the same event give an array of both in
\* encounter order
BothInOrder ==
  MergeArgs = <<"onClick" :> JFunction("f"), "onClick" :> JFunction("g")>>
    => /\ typeof(Merged["onClick"]) = "list"
       /\ Merged["onClick"][3] = <<JFunction("f"), JFunction("g")>>

\* every handler value of the arguments is one handler, not an array
SingleHandlersOnly ==
  \A i \in 1..Len(MergeArgs) :
    \A key \in DOMAIN MergeArgs[i] :
      isOn(key) => typeof(MergeArgs[i][key]) # "list"

\* C20 as stated: two different handlers for the same event are merged
\* into an array of both in encounter order, and after merging any
\* sequence of props objects whose handler values are single handlers or
\* arrays of handlers no handler is in the resulting list twice.
C20_Original == MergedNow => BothInOrder /\ NoHandlerTwice

\* C20 for the arguments on which the code does what is stated: when every
\* handler value merged is a single handler, no handler is in the
\* resulting list twice
C20_MergeHandlers ==
  MergedNow => BothInOrder /\ (SingleHandlersOnly => NoHandlerTwice)

\* f, g and f again have been merged under onClick and the result holds
\* f and g once each
C20_Witness ==
  /\ MergedNow
  /\ MergeArgs = <<"onClick" :> JFunction("f"), "onClick" :> JFunction("g"),
                   "onClick" :> JFunction("f")>>
  /\ Merged["onClick"][3] = <<JFunction("f"), JFunction("g")>>

---------------------------------------------------------------------------
(* C30 *)

TopFrame == IF blockStack = <<>> THEN NullRef ELSE blockStack[Len(blockStack)]

\* closeBlock has just been called on an empty stack
ClosedOnEmptyStack ==
  /\ lastCall' # lastCall
  /\ lastCall'[1].op = "closeBlock"
  /\ lastCall'[1].arg = 0

\* C30: in every reachable state currentBlock is the top frame of
\* blockStack, and null when the stack is empty or the top frame is the
\* marker of a block that does not track; closeBlock on an empty stack
\* leaves the stack empty and currentBlock null.
C30_CurrentBlockIsTopFrame ==
  /\ [](currentBlock = TopFrame)
  /\ [][ClosedOnEmptyStack => blockStack' = <<>> /\ currentBlock' = NullRef]_vars

\* two blocks are open, the inner one without tracking, after a close on
\* the empty stack
C30_Witness ==
  /\ Len(blockStack) = 2
  /\ blockStack[1] # NullRef
  /\ blockStack[2] = NullRef
  /\ currentBlock = NullRef
  /\ lastCall # <<>> /\ lastCall[1].op = "closeBlock" /\ lastCall[1].arg = 0

---------------------------------------------------------------------------
(* C28 *)

\* the step closes the block opened last
ClosesBlock == Len(opened') < Len(opened)

Outer == opened[Len(opened)]

\* the nodes constructed in the step
NewNodes == (Len(vnodes) + 1)..Len(vnodes')

\* C28: the close that matches an openBlock (after inner pairs and node
\* constructions) pops the frame it pushed: blockStack is what it was
\* before the openBlock, and currentBlock is the list it was then, with
\* the nodes it had then and at most the closed block root added.
C28_PushPopDiscipline ==
  [][ClosesBlock =>
       /\ blockStack' = Outer.blockStack
       /\ currentBlock' = Outer.currentBlock
       /\ Outer.currentBlock # NullRef =>
            \/ arrays'[Outer.currentBlock] = Outer.items
            \/ \E n \in NewNodes :
                 /\ vnodes'[n].dynamicChildren # NullRef
                 /\ arrays'[Outer.currentBlock] = Append(Outer.items, n)]_vars

\* inside a block that lists one node, an inner block has been opened and
\* closed by the construction of its root: the outer list has got the root
C28_Witness ==
  /\ Len(blockStack) = 1
  /\ currentBlock = blockStack[1]
  /\ currentBlock # NullRef
  /\ Len(opened) = 1
  /\ Len(vnodes) = 2
  /\ arrays[currentBlock] = <<1, 2>>
  /\ vnodes[2].dynamicChildren \notin {NullRef, EMPTY_ARR}

---------------------------------------------------------------------------
(* C27 *)

\* the step is a call of createVNode with a props object
CreatesWithProps ==
  /\ Len(vnodes') = Len(vnodes) + 1
  /\ calls'[Len(vnodes')].op = "createVNode"
  /\ calls'[Len(vnodes')].props # Null

\* the object the caller wrote, as it was when the call was made, and
\* where it is
GivenProps == calls'[Len(vnodes')].props[1]
Given == Len(objects) + 1

IsReactive(obj) == isProxy(obj) \/ InternalObjectKey \in DOMAIN obj

HasReactiveStyle(obj) ==
  "style" \in DOMAIN obj /\ typeof(obj["style"]) = "map"
     /\ obj["style"][2] \in ProxyIds

\* copy is obj with its class and style normalized: the other properties
\* are those of obj, a class that is not a string has become the string of
\* its names, and a style object is an object with the same declarations
NormalizedCopyOf(copy, obj) ==
  /\ DOMAIN copy = DOMAIN obj \ {ProxyMarker, InternalObjectKey}
  /\ \A k \in DOMAIN copy \ {"class", "style"} : copy[k] = obj[k]
  /\ "class" \in DOMAIN obj =>
       /\ typeof(copy["class"]) = "string"
       /\ Words(copy["class"][2]) = ClassNames(obj["class"])
  /\ "style" \in DOMAIN obj =>
       /\ typeof(copy["style"]) = "map"
       /\ typeof(obj["style"]) = "map" => copy["style"][3] = obj["style"][3]

---------------------------------------------------------------------------
(* C21 *)

\* the step is a call of the operation named
Calls(op) == lastCall' # <<>> /\ lastCall'[1].op = op

MountingApp == lastCall'[1].arg[1]
MountContainer == lastCall'[1].arg[2]

\* the step is a mount, by an application that is not mounted, into a
\* container that has the back-reference of an application
MountsIntoOccupied ==
  /\ Calls("mount")
  /\ ~apps[MountingApp].isMounted
  /\ containers[MountContainer] # NullRef

OccupiedWarning ==
  "There is already an app instance mounted on the host container."

\* a diagnostic is emitted and the call returns
WarnsOnly(msg) == warnings' = Append(warnings, msg)

\* C21 as stated: mounting into a container that has a mounted application
\* emits a diagnostic and leaves the first mount alone: the renderer is not
\* invoked, the back-reference still points to the first application, and
\* the second application is not marked mounted.
C21_Original ==
  [][MountsIntoOccupied =>
       /\ WarnsOnly(OccupiedWarning)
       /\ rendered' = rendered
       /\ containers' = containers
       /\ ~apps'[MountingApp].isMounted]_vars

\* C21, as the code has it: the diagnostic is emitted and the mount goes on
\* as in a free container.  The renderer is invoked once, on that container
\* with the root node of the second application; the back-reference of the
\* container points to the second application; the second application is
\* marked mounted in that container; the closure of every other
\* application is as it was.
C21_OccupiedContainerIsTaken ==
  [][MountsIntoOccupied =>
       /\ WarnsOnly(OccupiedWarning)
       /\ Len(rendered') = Len(rendered) + 1
       /\ rendered'[Len(rendered')].container = MountContainer
       /\ rendered'[Len(rendered')].app = MountingApp
       /\ rendered'[Len(rendered')].vnode = Len(vnodes')
       /\ containers'[MountContainer] = MountingApp
       /\ apps'[MountingApp].isMounted
       /\ apps'[MountingApp].container = MountContainer
       /\ \A other \in 1..Len(apps) :
            other # MountingApp => apps'[other] = apps[other]
       /\ lastCall'[1].value = <<"proxy", MountingApp>>]_vars

\* two applications are mounted in the same container, the second after a
\* diagnostic, and the container refers to the second
C21_Witness ==
  /\ Len(apps) = 2
  /\ apps[1].isMounted /\ apps[1].container = "c1"
  /\ apps[2].isMounted /\ apps[2].container = "c1"
  /\ containers["c1"] = 2
  /\ warnings = <<OccupiedWarning>>
  /\ Len(rendered) = 2
  /\ rendered[1].app = 1 /\ rendered[2].app = 2

---------------------------------------------------------------------------
(* C22 *)

UnmountingApp == lastCall'[1].arg[1]

\* the calls of the renderer made by the application
RenderedBy(app) == {i \in 1..Len(rendered) : rendered[i].app = app}

Max(S) == CHOOSE i \in S : \A j \in S : j <= i

\* the application has never been mounted
NeverMounted(app) == RenderedBy(app) = {}

\* the application is mounted now: the renderer has been given its root
\* node, and has not been given nothing by it since
CurrentlyMounted(app) ==
  /\ RenderedBy(app) # {}
  /\ rendered[Max(RenderedBy(app))].vnode # NullRef

NotMountedWarning == "Cannot unmount an app that is not mounted."

\* a diagnostic and nothing else
DiagnosticOnly(msg) ==
  /\ WarnsOnly(msg)
  /\ rendered' = rendered
  /\ apps' = apps
  /\ containers' = containers
  /\ vnodes' = vnodes

\* nothing is rendered into the container the application recorded, and
\* the back-reference of the container is removed
TornDown(app) ==
  /\ rendered' = Append(rendered, rendered'[Len(rendered')])
  /\ rendered'[Len(rendered')].fn = "render"
  /\ rendered'[Len(rendered')].vnode = NullRef
  /\ rendered'[Len(rendered')].container = apps[app].container
  /\ containers' = [containers EXCEPT ![apps[app].container] = NullRef]
  /\ warnings' = warnings

\* C22 as stated: unmount on an application that is not mounted now is a
\* diagnostic and nothing else; on a mounted application it renders
\* nothing into the recorded container, removes the back-reference and
\* marks the application unmounted, so that a second unmount is again a
\* diagnostic and nothing else.
C22_Original ==
  [][Calls("unmount") =>
       IF CurrentlyMounted(UnmountingApp)
       THEN TornDown(UnmountingApp) /\ ~apps'[UnmountingApp].isMounted
       ELSE DiagnosticOnly(NotMountedWarning)]_vars

\* C22 where the code does what is stated: unmount on an application that
\* has never been mounted is a diagnostic and nothing else; on an
\* application that is mounted it renders nothing into the recorded
\* container and removes the back-reference
C22_Unmount ==
  [][Calls("unmount") =>
       /\ NeverMounted(UnmountingApp) => DiagnosticOnly(NotMountedWarning)
       /\ CurrentlyMounted(UnmountingApp) => TornDown(UnmountingApp)]_vars

\* one application has been mounted in c1 and unmounted, another has been
\* told that it is not mounted
C22_Witness ==
  /\ Len(apps) = 2
  /\ Len(rendered) = 2
  /\ rendered[1].app = 1 /\ rendered[1].vnode # NullRef
  /\ rendered[1].container = "c1"
  /\ rendered[2].app = 1 /\ rendered[2].vnode = NullRef
  /\ rendered[2].container = "c1"
  /\ containers["c1"] = NullRef
  /\ warnings = <<NotMountedWarning>>
  /\ NeverMounted(2)

---------------------------------------------------------------------------
(* C23 *)

\* the calls of the renderer on the container
RenderedInto(c) == {i \in 1..Len(rendered) : rendered[i].container = c}

\* the last thing done to the container is an unmount
LeftByUnmount(c) ==
  /\ RenderedInto(c) # {}
  /\ rendered[Max(RenderedInto(c))].vnode = NullRef

\* the application is mounted in the container as in a free one: no
\* diagnostic, the renderer is given its root node, and the container
\* refers back to it
MountsCleanly(app, c) ==
  /\ warnings' = warnings
  /\ rendered' = Append(rendered, rendered'[Len(rendered')])
  /\ rendered'[Len(rendered')].app = app
  /\ rendered'[Len(rendered')].container = c
  /\ rendered'[Len(rendered')].vnode # NullRef
  /\ containers' = [containers EXCEPT ![c] = app]
  /\ lastCall'[1].value = <<"proxy", app>>

\* C23: a container an application has been unmounted from carries no
\* back-reference, and a mount of a freshly created application in it
\* succeeds cleanly: no diagnostic, the renderer is invoked, and the
\* back-reference of the container is the new application.
C23_MountAfterUnmount ==
  /\ [](\A c \in HostContainers : LeftByUnmount(c) => containers[c] = NullRef)
  /\ [][Calls("mount") /\ NeverMounted(MountingApp)
                      /\ LeftByUnmount(MountContainer)
          => MountsCleanly(MountingApp, MountContainer)]_vars

\* c1 has had the first application, unmounted, and has the second now
C23_Witness ==
  /\ Len(rendered) = 3
  /\ \A i \in 1..3 : rendered[i].container = "c1"
  /\ rendered[1].app = 1 /\ rendered[1].vnode # NullRef
  /\ rendered[2].app = 1 /\ rendered[2].vnode = NullRef
  /\ rendered[3].app = 2 /\ rendered[3].vnode # NullRef
  /\ containers["c1"] = 2
  /\ apps[2].isMounted
  /\ warnings = <<>>

---------------------------------------------------------------------------
(* C29 *)

AlreadyMountedWarning == "App has already been mounted."

\* the calls of the renderer that mount the root of the application
MountsOf(app) == {i \in RenderedBy(app) : rendered[i].vnode # NullRef}

\* C29: mount on an application that is mounted only gives a diagnostic:
\* neither render nor hydrate is invoked, the container of the application
\* and the back-reference of every container are unchanged, and nothing is
\* returned; so the renderer mounts the root of an application at most
\* once.
C29_SecondMountIsNoOp ==
  /\ [][Calls("mount") /\ apps[MountingApp].isMounted =>
          /\ WarnsOnly(AlreadyMountedWarning)
          /\ rendered' = rendered
          /\ apps' = apps
          /\ containers' = containers
          /\ vnodes' = vnodes
          /\ lastCall'[1].value = JUndefined]_vars
  /\ [](\A app \in 1..Len(apps) : Cardinality(MountsOf(app)) <= 1)

\* the application is mounted in c1 and has been told so when it was asked
\* to mount in c2
C29_Witness ==
  /\ lastCall # <<>>
  /\ lastCall[1].op = "mount"
  /\ lastCall[1].arg[1] = 1
  /\ lastCall[1].arg[2] = "c2"
  /\ lastCall[1].value = JUndefined
  /\ apps[1].isMounted
  /\ apps[1].container = "c1"
  /\ containers["c2"] = NullRef
  /\ Len(rendered) = 1
  /\ warnings = <<AlreadyMountedWarning>>

---------------------------------------------------------------------------
(* C26 *)

MountIsHydrate == lastCall'[1].arg[3]

\* the call of the renderer made in this step
RenderCall == rendered'[Len(rendered')]

\* the root node is new, built from the root component and the root props,
\* and has the context of the application when the renderer is called
RootIsBuilt(app) ==
  /\ RenderCall.vnode # NullRef
  /\ RenderCall.vnode > Len(vnodes)
  /\ RenderCall.type = apps[app].component
  /\ RenderCall.props = apps[app].props
  /\ RenderCall.appContext = app

\* hydrate is called iff it is asked for and there is one, otherwise
\* render; one call, and no other
OneRendererCall(app, c, isHydrate) ==
  /\ rendered' = Append(rendered, RenderCall)
  /\ RenderCall.app = app
  /\ RenderCall.container = c
  /\ RenderCall.fn = IF isHydrate /\ apps[app].hydrate
                     THEN "hydrate" ELSE "render"

\* while the renderer runs nothing is marked yet
NotMarkedInside(app, c) ==
  /\ ~RenderCall.isMounted
  /\ RenderCall.appContainer = apps[app].container
  /\ RenderCall.backReference = containers[c]

\* after the call the application is mounted in the container
MarkedAfter(app, c) ==
  /\ apps'[app].isMounted
  /\ apps'[app].container = c
  /\ containers'[c] = app

\* C26: a mount of an application that is not mounted builds the root node
\* from the root component and props and attaches the context before the
\* renderer is called; hydrate is called iff isHydrate is set and the
\* renderer has a hydrate function, otherwise render, one call in all; the
\* application is marked mounted, its container recorded and the
\* back-reference of the container set only after that call.
C26_MountOrder ==
  [][Calls("mount") /\ ~apps[MountingApp].isMounted =>
       /\ RootIsBuilt(MountingApp)
       /\ OneRendererCall(MountingApp, MountContainer, MountIsHydrate)
       /\ NotMarkedInside(MountingApp, MountContainer)
       /\ MarkedAfter(MountingApp, MountContainer)]_vars

\* both applications were asked to hydrate: the one with a hydrate
\* function has hydrated c1, the one without has rendered into c2
C26_Witness ==
  /\ Len(rendered) = 2
  /\ rendered[1].fn = "hydrate" /\ rendered[1].container = "c1"
  /\ rendered[2].fn = "render" /\ rendered[2].container = "c2"
  /\ rendered[1].app # rendered[2].app
  /\ ~apps[rendered[2].app].hydrate
  /\ lastCall # <<>> /\ lastCall[1].op = "mount" /\ lastCall[1].arg[3]
  /\ rendered[2].props # NullRef
  /\ ~rendered[2].isMounted /\ rendered[2].backReference = NullRef
  /\ apps[rendered[2].app].isMounted
  /\ containers["c2"] = rendered[2].app

---------------------------------------------------------------------------
(* C24 *)

UsingApp == lastCall'[1].arg[1]
UsedPlugin == lastCall'[1].arg[2]

AlreadyAppliedWarning == "Plugin has already been applied to target app."

\* the times the routine of the plugin has been entered for the application
Invocations(as, app, plugin) ==
  {i \in 1..Len(as[app].invoked) : as[app].invoked[i].plugin = plugin}

\* the plugin has a routine: an install function, or is a function itself
HasRoutine(plugin) == Plugins[plugin].install \/ Plugins[plugin].callable

\* the plugin has been handed to app.use of the application before
UsedBefore(app, plugin) == plugin \in apps[app].installedPlugins

\* the routine of the plugin is entered in this step, once, before any
\* other: the install function if there is one, else the plugin itself
EnteredNow(app, plugin) ==
  /\ Invocations(apps, app, plugin) = {}
  /\ Invocations(apps', app, plugin) = {Len(apps[app].invoked) + 1}
  /\ apps'[app].invoked[Len(apps[app].invoked) + 1].via =
       IF Plugins[plugin].install THEN "install" ELSE "call"

\* C24: over any sequence of app.use calls on an application, a use of a
\* plugin from inside its own install routine included, the routine of each
\* plugin (its install function, or the plugin itself) is entered exactly
\* once, on the first use; a later use only gives a diagnostic, and every
\* use returns the application.
C24_InstalledOnce ==
  /\ [](\A app \in 1..Len(apps) : \A plugin \in DOMAIN Plugins :
          /\ Cardinality(Invocations(apps, app, plugin)) <= 1
          /\ UsedBefore(app, plugin) <=> Invocations(apps, app, plugin) # {})
  /\ [][Calls("use") =>
          /\ lastCall'[1].value = UsingApp
          /\ (HasRoutine(UsedPlugin) /\ ~UsedBefore(UsingApp, UsedPlugin))
               => EnteredNow(UsingApp, UsedPlugin)
          /\ UsedBefore(UsingApp, UsedPlugin)
               => /\ WarnsOnly(AlreadyAppliedWarning)
                  /\ apps' = apps]_vars

\* pluginP has been used twice on the first application: its install
\* routine was entered once, used the plugin again and was told so, and
\* the second use was told so as well
C24_Witness ==
  /\ lastCall # <<>>
  /\ lastCall[1].op = "use"
  /\ lastCall[1].arg = <<1, "pluginP">>
  /\ apps[1].invoked = <<[plugin |-> "pluginP", via |-> "install"]>>
  /\ warnings = <<AlreadyAppliedWarning, AlreadyAppliedWarning>>

---------------------------------------------------------------------------
(* C25 *)

\* the callback that is executing: the innermost that has not returned
Executing == running[Len(running)]

EndingApp == lastCall'[1].arg[1]

\* C25 as stated: while the callback of app.runWithContext is executing
\* currentApp is that application, also after a runWithContext it called
\* has returned; and after the callback returns or throws currentApp is
\* what it was before the call.
C25_Original ==
  /\ [](running # <<>> => currentApp = Executing.app)
  /\ [][Calls("runWithContext ends") => currentApp' = Executing.before]_vars

\* C25 where the code does what is stated: currentApp is the application
\* while its callback is executing and no runWithContext called by the
\* callback has returned; currentApp is null when no callback is executing;
\* and the outermost call leaves currentApp as it found it
C25_ContextWithoutNesting ==
  /\ []((running # <<>> /\ ~Executing.returned) => currentApp = Executing.app)
  /\ [](running = <<>> => currentApp = NullRef)
  /\ [][Calls("runWithContext ends") /\ Len(running) = 1
          => currentApp' = Executing.before]_vars

\* the callback of the first application has called runWithContext of the
\* second, and the callback of the second is executing
C25_Witness ==
  /\ Len(running) = 2
  /\ running[1].app = 1
  /\ running[2].app = 2
  /\ running[2].before = 1
  /\ currentApp = 2

---------------------------------------------------------------------------
(* C34 *)

\* the application is mounted in the container now
MountedIn(app, c) == CurrentlyMounted(app) /\ apps[app].container = c

\* the back-reference of a container is an application mounted in it
MarkerIsMounted ==
  \A c \in HostContainers :
    containers[c] # NullRef => MountedIn(containers[c], c)

\* the containers that lose their back-reference in this step
Unmarked == {c \in HostContainers : containers[c] # NullRef
                                      /\ containers'[c] = NullRef}

\* C34 as stated: over any sequence of mount and unmount calls the
\* back-reference of a container is an application only if that
\* application is mounted in the container now, and unmount of an
\* application removes a back-reference only when it refers to that
\* application.
C34_Original ==
  /\ []MarkerIsMounted
  /\ [][Calls("unmount") =>
          \A c \in Unmarked : containers[c] = UnmountingApp]_vars

\* C34 where the code does what is stated: the back-reference of a
\* container is an application mounted in it, and unmount of an
\* application changes the back-reference of no container but the one
\* the application recorded
C34_MarkerOfOwnContainer ==
  /\ []MarkerIsMounted
  /\ [][Calls("unmount") =>
          /\ \A c \in Unmarked : c = apps[UnmountingApp].container
          /\ \A c \in HostContainers :
               containers'[c] # containers[c] => c \in Unmarked]_vars

\* the two applications were mounted in c1 and c2, and the first has been
\* unmounted: c2 still refers to the second
C34_Witness ==
  /\ Len(rendered) = 3
  /\ rendered[1].app = 1 /\ rendered[1].container = "c1"
  /\ rendered[2].app = 2 /\ rendered[2].container = "c2"
  /\ rendered[3].app = 1 /\ rendered[3].vnode = NullRef
  /\ containers["c1"] = NullRef
  /\ containers["c2"] = 2
  /\ lastCall # <<>> /\ lastCall[1].op = "unmount"

---------------------------------------------------------------------------
(* C33 *)

\* the node was made by createVNode from a node whose patch flag is a set
\* of bits, not the hoisted sentinel
IsCloneOfDynamic(c) ==
  /\ IsClone(c)
  /\ vnodes[calls[c].arg.vnode].patchFlag >= 0

\* C33 as stated: createVNode on an existing node whose patch flag is not
\* the hoisted sentinel never returns a node whose patch flag is the
\* hoisted sentinel, for every non-negative patch flag of the original,
\* with or without props.
C33_Original ==
  \A c \in Nodes :
    IsCloneOfDynamic(c) => vnodes[c].patchFlag # HOISTED

\* C33 where the code does what is stated: the clone of a node whose patch
\* flag is non-negative and even is not hoisted: its flag is BAIL.  The
\* clone of a node whose flag is odd, TEXT among its bits, has all bits
\* set, which is the hoisted sentinel.
C33_EvenFlagsBail ==
  \A c \in Nodes :
    IsCloneOfDynamic(c) =>
      vnodes[c].patchFlag =
        IF vnodes[calls[c].arg.vnode].patchFlag % 2 = 0
        THEN BAIL ELSE BitOr(TEXT, BAIL)

\* a node with CLASS and HYDRATE_EVENTS has been given to createVNode
\* with props, and the clone has BAIL
C33_Witness ==
  \E c \in Nodes :
    /\ IsCloneOfDynamic(c)
    /\ calls[c].props # Null
    /\ vnodes[calls[c].arg.vnode].patchFlag = CLASS + HYDRATE_EVENTS
    /\ vnodes[c].patchFlag = BAIL

---------------------------------------------------------------------------
(* C32 *)

\* the children bit that goes with the form of the children, 0 for none
BitOfForm(children) ==
  CASE typeof(children) = "string" -> TEXT_CHILDREN
    [] typeof(children) = "array" -> ARRAY_CHILDREN
    [] typeof(children) = "object" -> SLOTS_CHILDREN
    [] OTHER -> 0

\* at most one children bit, and the one of the form of the children
OneMatchingBit(n) ==
  /\ ChildrenBits(n) \in {0, TEXT_CHILDREN, ARRAY_CHILDREN, SLOTS_CHILDREN}
  /\ ChildrenBits(n) # 0 => ChildrenBits(n) = BitOfForm(vnodes[n].children)

\* C32 as stated: every node createVNode, createElementVNode, createBlock
\* or cloneVNode returns, createVNode on an existing node with new children
\* included, has at most one of TEXT_CHILDREN, ARRAY_CHILDREN and
\* SLOTS_CHILDREN, and the bit set is the one of the form of its children.
C32_Original == \A n \in Nodes : OneMatchingBit(n)

\* the node is built from a type, not from a node
FromType(n) == ~IsClone(n) /\ ~IsCloneVNode(n)

\* the node is a copy of a node, or a copy given children that are falsy
CopiedAsIs(n) ==
  IsCloneVNode(n) \/ (IsClone(n) /\ ~ToBoolean(GivenChildren(n)))

\* the node is a copy that was given children
CopiedWithChildren(n) == IsClone(n) /\ ToBoolean(GivenChildren(n))

\* C32 where the code does what is stated: a node built from a type by
\* createVNode, createBlock or createElementVNode has at most one children
\* bit, the one of the form of its children; a copy has the bits and the
\* form of children of its original; and a copy given new children has
\* one matching bit when its original had no children bit.
C32_OneBitUnlessRenormalized ==
  \A n \in Nodes :
    /\ FromType(n) => OneMatchingBit(n)
    /\ CopiedAsIs(n)
         => /\ ChildrenBits(n) = ChildrenBits(calls[n].arg.vnode)
            /\ typeof(vnodes[n].children) = typeof(Original(n).children)
    /\ (CopiedWithChildren(n) /\ ChildrenBits(calls[n].arg.vnode) = 0)
         => OneMatchingBit(n)

\* a component with a slot map, its copy, and the copy createVNode makes of
\* a node without children when given a text
C32_Witness ==
  /\ Len(vnodes) = 3
  /\ FromType(1)
  /\ ChildrenBits(1) = 0
  /\ CopiedWithChildren(2) /\ calls[2].arg.vnode = 1
  /\ ChildrenBits(2) = TEXT_CHILDREN
  /\ IsCloneVNode(3) /\ calls[3].arg.vnode = 2
  /\ ChildrenBits(3) = TEXT_CHILDREN

---------------------------------------------------------------------------
(* C31 *)

\* the render pass throws in this step, with a block open
Aborts == opened # <<>> /\ opened' = <<>> /\ vnodes' = vnodes

\* a render pass has thrown with a block open
HasAborted == lastCall # <<>> /\ lastCall[1].op = "throw"

\* the lists the blocks of the aborted pass were collecting
AbortedLists == lastCall[1].arg.lists

\* C31: when a render pass throws after openBlock and before the matching
\* createBlock or createElementBlock, blockStack and currentBlock are, once
\* the exception has left the pass, what they were before that openBlock,
\* so that no node constructed later is appended to the list of an aborted
\* block.
C31_Original ==
  /\ [][Aborts => /\ blockStack' = opened[1].blockStack
                  /\ currentBlock' = opened[1].currentBlock]_vars
  /\ [][HasAborted /\ Len(vnodes') > Len(vnodes) =>
          \A a \in AbortedLists : arrays'[a] = arrays[a]]_vars

\* a pass has thrown with a tracking block open; the list of that block is
\* still the current block, and a node constructed after has been appended
\* to it
C31_Witness ==
  /\ HasAborted
  /\ lastCall[1].arg.before.blockStack = <<>>
  /\ currentBlock \in AbortedLists
  /\ blockStack = <<currentBlock>>
  /\ opened = <<>>
  /\ Len(vnodes) = 1
  /\ arrays[currentBlock] = <<1>>

---------------------------------------------------------------------------
(* C35 *)

\* a mount of the application has failed: the renderer has thrown
HasFailed(app) == \E i \in RenderedBy(app) : rendered[i].thrown

\* mount is called in this step, and the renderer returns or throws
MountCalled == Calls("mount") \/ Calls("mount throws")

\* C35: when render or hydrate throws during app.mount(container) the
\* application is left unmounted: it is not marked mounted, app._container
\* stays null and the container gets no back-reference; a later mount
\* calls the renderer again and does not report that the application is
\* mounted.
C35_FailedMountLeavesUnmounted ==
  /\ [][Calls("mount throws") =>
          /\ RenderCall.thrown
          /\ rendered' = Append(rendered, RenderCall)
          /\ ~apps'[MountingApp].isMounted
          /\ apps'[MountingApp].container = "null"
          /\ containers' = containers]_vars
  /\ [][MountCalled /\ HasFailed(MountingApp) /\ ~apps[MountingApp].isMounted =>
          /\ Len(rendered') = Len(rendered) + 1
          /\ RenderCall.app = MountingApp
          /\ RenderCall.vnode # NullRef
          /\ \A i \in 1..Len(warnings') :
               i > Len(warnings) => warnings'[i] # AlreadyMountedWarning]_vars

\* the renderer threw when the application was mounted in c1; the second
\* mount has called it again and the application is mounted
C35_Witness ==
  /\ Len(rendered) = 2
  /\ rendered[1].app = 1 /\ rendered[1].thrown /\ rendered[1].container = "c1"
  /\ rendered[2].app = 1 /\ ~rendered[2].thrown /\ rendered[2].container = "c1"
  /\ rendered[2].vnode # NullRef
  /\ ~rendered[2].isMounted
  /\ rendered[2].appContainer = "null"
  /\ rendered[2].backReference = NullRef
  /\ apps[1].isMounted
  /\ containers["c1"] = 1
  /\ warnings = <<>>

====
